---- MODULE Spec2Model ----
(***************************************************************************)
(* A model of jorzel/myredis: the RESP codec, the command handler and its  *)
(* store, the per-connection read loops and the primary -> replica         *)
(* propagation.                                                            *)
(*                                                                         *)
(* A byte string is a sequence of one-byte tokens ("a", "*", CR, LF; a     *)
(* non-printable byte 0xHH is the token "xHH").  The literal texts of the  *)
(* -ERR messages are carried as one token each: nothing measures or parses *)
(* them.                                                                   *)
(***************************************************************************)
EXTENDS Integers, Sequences, FiniteSets, TLC

VARIABLES
    storage,    \* DefaultStorage.db / DefaultCommandHandler.storage: key -> record
    now,        \* time.Now(), in ticks (TicksPerMs ticks make one millisecond)
    writes,     \* what Handle wrote to the connection for the last command
    cmd,        \* history: the last command handled
    fresh,      \* history: no time has passed since the last command was handled
    lastWrite,  \* history: per key, the last SET or DEL that was applied to it
    preKeys,    \* history: the keys that had a record when the last command began
    frames,     \* codec: the element lists encoded so far
    buf,        \* codec: the bytes of the encoded frames, concatenated
    result,     \* codec: what Parse returned for buf
    wire,       \* session: bytes the client has sent and the server has not read yet
    stream,     \* session, history: the messages the client has sent, in order
    executed,   \* session, history: the commands handed to Handle, in order
    replies,    \* session: the bytes the server has written on the connection
    open,       \* session: handleConnection has not returned (conn.Close not run)
    peerClosed, \* session: the client has closed its end
    framed,     \* session, history: a read failed on an unsupported start byte
    wellFormed, \* session, history: every message sent was a whole encoded frame
    pStorage,   \* primary: DefaultCommandHandler.storage
    slaveConns, \* primary: DefaultConnectionPool.conns, as the set of its connections
    sess,       \* primary: per connection, where its handleConnection goroutine stands
    inbox,      \* per connection of the primary: bytes on their way to the primary
    outbox,     \* per connection of the primary: bytes the primary wrote, not yet read
    issued,     \* per client: the number of commands it has written
    hs,         \* replica: the next step of ReplicaServer.handshake, or what followed it
    rStorage,   \* replica: DefaultCommandHandler.storage
    rWrites,    \* replica, history: bytes handleReplicationConnection wrote to the primary
    commitLog,  \* history: the SETs stored on the primary, in the order of the stores
    propLog,    \* history: the commitLog index of each frame written to the replica
    psyncTrace, \* history: the steps of handlePSync on the replica's connection
    broken,     \* primary: the connections on which conn.Write and conn.Read fail
    snapLog,    \* history (SpecFanout): what each GetSlaveConns returned, and when
    ackLog,     \* history (SpecFanout): per stored SET, the pool then and whether it was answered
    fanLog,     \* history: each client.Propagate of a SET, and whether it failed
    replicaOf,  \* node: Config.ReplicaOf, "nil" or the address of a primary
    server,     \* node: the server main or its caller constructed, "none" before
    exited,     \* node: Start returned an error (main calls os.Exit(1))
    listening,  \* node: Start has reached its Accept loop
    hsTrace,    \* history: the writes and the replies of ReplicaServer.handshake
    streamed,   \* history: what the primary wrote after it was sent PSYNC
    answers,    \* history: per command of `executed`, the messages written for it
    spc,        \* store: per goroutine, where it stands in a call of DefaultStorage
    hist,       \* store, history: per goroutine, its finished calls and their results
    before,     \* history: the key of the last stored SET and the record it replaced
    fetched,    \* history: what storage.Get returned to the last GET
    laterWrites,\* history (SpecPrimary): what the later handler writes for the same command
    blobs,      \* codec, history (SpecSnapshot): the snapshot payloads written, and where
    ppc,        \* pool: per goroutine, its access to DefaultConnectionPool.conns under way
    unsafe,     \* pool: per goroutine, its access under way overlapped a conflicting one
    raced,      \* pool, history: two conflicting accesses to the map have overlapped
    thrown,     \* pool: the runtime has ended the process on a concurrent map access
    snaps,      \* pool, history: what each GetAll returned, and the pool around it
    outcome,    \* the last call of Handle: its connection, HandleResult.CommandError, the error
    aborted     \* the process has been ended by a panic

engineVars == <<storage, now, writes, cmd, fresh, lastWrite, preKeys, before, fetched, laterWrites>>
codecVars == <<frames, buf, result, blobs>>
sessionVars == <<wire, stream, executed, replies, open, peerClosed, framed, wellFormed>>
fanVars == <<broken, snapLog, ackLog, fanLog>>
replVars == <<pStorage, slaveConns, sess, inbox, outbox, issued, hs, rStorage, rWrites,
              commitLog, propLog, psyncTrace, fanVars>>
nodeVars == <<replicaOf, server, exited, listening, hsTrace, streamed, answers>>
storeVars == <<spc, hist>>
poolVars == <<ppc, unsafe, raced, thrown, snaps>>
callVars == <<outcome, aborted>>
vars == <<engineVars, codecVars, sessionVars, replVars, nodeVars, storeVars, poolVars, callVars>>

----------------------------------------------------------------------------
(* Bounds of the model.                                                    *)

MaxTime == 5        \* the clock stops at this tick
MaxDelKeys == 2     \* a DEL lists at most this many keys
MaxFrames == 2      \* the codec concatenates at most this many frames
MaxElems == 2       \* elements of an encoded frame
MaxSends == 2       \* messages a client writes on one connection
MaxClientCmds == 1  \* commands each client of the primary writes

TicksPerMs == 2     \* resolution of the model's clock: half a millisecond

----------------------------------------------------------------------------
(* Bytes and decimal numbers.                                              *)

CR == "\r"
LF == "\n"
CRLF == <<CR, LF>>

Digits == <<"0", "1", "2", "3", "4", "5", "6", "7", "8", "9">>
LowerLetters == <<"a", "b", "c", "d", "e", "f", "g", "h", "i", "j", "k", "l", "m",
                  "n", "o", "p", "q", "r", "s", "t", "u", "v", "w", "x", "y", "z">>
UpperLetters == <<"A", "B", "C", "D", "E", "F", "G", "H", "I", "J", "K", "L", "M",
                  "N", "O", "P", "Q", "R", "S", "T", "U", "V", "W", "X", "Y", "Z">>

IsDigit(b) == \E i \in 1..Len(Digits) : Digits[i] = b
DigitVal(b) == (CHOOSE i \in 1..Len(Digits) : Digits[i] = b) - 1

ToUpperByte(b) ==
    IF \E i \in 1..Len(LowerLetters) : LowerLetters[i] = b
    THEN UpperLetters[CHOOSE i \in 1..Len(LowerLetters) : LowerLetters[i] = b]
    ELSE b
ToLowerByte(b) ==
    IF \E i \in 1..Len(UpperLetters) : UpperLetters[i] = b
    THEN LowerLetters[CHOOSE i \in 1..Len(UpperLetters) : UpperLetters[i] = b]
    ELSE b
ToUpper(s) == [i \in 1..Len(s) |-> ToUpperByte(s[i])]
ToLower(s) == [i \in 1..Len(s) |-> ToLowerByte(s[i])]

RECURSIVE Itoa(_)
Itoa(n) ==
    IF n < 0 THEN <<"-">> \o Itoa(-n)
    ELSE IF n < Len(Digits) THEN <<Digits[n + 1]>>
    ELSE Itoa(n \div Len(Digits)) \o <<Digits[(n % Len(Digits)) + 1]>>

RECURSIVE DecVal(_)
DecVal(s) ==
    IF Len(s) = 0 THEN 0
    ELSE DecVal(SubSeq(s, 1, Len(s) - 1)) * Len(Digits) + DigitVal(s[Len(s)])

\* strconv.Atoi: an optional sign, then one or more decimal digits.
Atoi(s) ==
    LET signed == Len(s) > 0 /\ s[1] \in {"-", "+"}
        body == IF signed THEN Tail(s) ELSE s
    IN  IF Len(body) = 0 \/ \E i \in 1..Len(body) : ~IsDigit(body[i])
        THEN [ok |-> FALSE, n |-> 0]
        ELSE [ok |-> TRUE, n |-> IF s[1] = "-" THEN -DecVal(body) ELSE DecVal(body)]

RECURSIVE Concat(_)
Concat(ss) == IF Len(ss) = 0 THEN <<>> ELSE Head(ss) \o Concat(Tail(ss))

----------------------------------------------------------------------------
(* protocol: the serializer.                                               *)

SimpleInteger(i) == <<":">> \o Itoa(i) \o CRLF
SimpleString(s) == <<"+">> \o s \o CRLF
Error(s) == <<"-", "E", "R", "R", " ">> \o s \o CRLF
\* mutant: the CRLF that ends a bulk string is left out, as FileContent does.
BulkStringUnterminated(s) == <<"$">> \o Itoa(Len(s)) \o CRLF \o s

BulkString(s) == <<"$">> \o Itoa(Len(s)) \o CRLF \o s \o CRLF
Nil == <<"$", "-", "1">> \o CRLF
BulkArray(elements) ==
    <<"*">> \o Itoa(Len(elements)) \o CRLF
        \o Concat([i \in 1..Len(elements) |-> BulkString(elements[i])])
FileContent(content) == <<"$">> \o Itoa(Len(content)) \o CRLF \o content

----------------------------------------------------------------------------
(* protocol: the command names and the parser.                             *)

PING == <<"P", "I", "N", "G">>
PING_REPLY == <<"P", "O", "N", "G">>
OK == <<"O", "K">>
PX == <<"p", "x">>
MS == <<"m", "s">>
ECHO == <<"E", "C", "H", "O">>
SET == <<"S", "E", "T">>
GET == <<"G", "E", "T">>
DEL == <<"D", "E", "L">>
INFO == <<"I", "N", "F", "O">>
REPLCONF == <<"R", "E", "P", "L", "C", "O", "N", "F">>
PSYNC == <<"P", "S", "Y", "N", "C">>
FULLRESYNC == <<"F", "U", "L", "L", "R", "E", "S", "Y", "N", "C">>

NewCommand(name, args) == [Name |-> ToUpper(name), Args |-> args]

\* A read result: err is "nil", "EOF" (the bytes end inside the frame),
\* "protocol" (a malformed frame), "length" (strconv.Atoi rejects the array count or the
\* bulk length) or "panic" (make() with a negative length or capacity).
Fail(e) == [err |-> e, pos |-> 0, val |-> <<>>]
Read(p, v) == [err |-> "nil", pos |-> p, val |-> v]

RECURSIVE IndexOfLF(_, _)
IndexOfLF(b, p) ==
    IF p > Len(b) THEN 0 ELSE IF b[p] = LF THEN p ELSE IndexOfLF(b, p + 1)

\* readLine from position p of b: the line without its CRLF, and the position after it.
readLine(b, p) ==
    LET i == IndexOfLF(b, p) IN
    IF i = 0 THEN Fail("EOF")
    ELSE IF i - p < 1 \/ b[i - 1] # CR THEN Fail("protocol")
    ELSE Read(i + 1, SubSeq(b, p, i - 2))

readBulkString(b, p) ==
    LET l == readLine(b, p) IN
    IF l.err # "nil" THEN l
    ELSE IF Len(l.val) = 0 \/ l.val[1] # "$" THEN Fail("protocol")
    ELSE LET n == Atoi(Tail(l.val)) IN
         IF ~n.ok THEN Fail("length")
         ELSE IF n.n < 0 THEN Fail("panic")
         ELSE IF l.pos + n.n - 1 > Len(b) THEN Fail("EOF")
         ELSE IF l.pos + n.n + 1 > Len(b) THEN Fail("EOF")
         ELSE IF SubSeq(b, l.pos + n.n, l.pos + n.n + 1) # CRLF THEN Fail("protocol")
         ELSE Read(l.pos + n.n + 2, SubSeq(b, l.pos, l.pos + n.n - 1))

\* mutant: the payload must be followed by CRLF, as that of a bulk string.
readBulkRawTerminated(b, p) ==
    LET l == readLine(b, p) IN
    IF l.err # "nil" THEN l
    ELSE IF Len(l.val) = 0 \/ l.val[1] # "$" THEN Fail("protocol")
    ELSE LET n == Atoi(Tail(l.val)) IN
         IF ~n.ok THEN Fail("length")
         ELSE IF n.n < 0 THEN Fail("panic")
         ELSE IF l.pos + n.n + 1 > Len(b) THEN Fail("EOF")
         ELSE IF SubSeq(b, l.pos + n.n, l.pos + n.n + 1) # CRLF THEN Fail("protocol")
         ELSE Read(l.pos + n.n + 2, SubSeq(b, l.pos, l.pos + n.n - 1))

readBulkRaw(b, p) ==
    LET l == readLine(b, p) IN
    IF l.err # "nil" THEN l
    ELSE IF Len(l.val) = 0 \/ l.val[1] # "$" THEN Fail("protocol")
    ELSE LET n == Atoi(Tail(l.val)) IN
         IF ~n.ok THEN Fail("length")
         ELSE IF n.n < 0 THEN Fail("panic")
         ELSE IF l.pos + n.n - 1 > Len(b) THEN Fail("EOF")
         ELSE Read(l.pos + n.n, SubSeq(b, l.pos, l.pos + n.n - 1))

\* The argCount bulk strings of a command, read one after the other.
RECURSIVE readArgs(_, _, _, _)
readArgs(b, p, n, args) ==
    IF n = 0 THEN Read(p, args)
    ELSE LET a == readBulkString(b, p) IN
         IF a.err # "nil" THEN a ELSE readArgs(b, a.pos, n - 1, Append(args, a.val))

readCommand(b, p) ==
    LET l == readLine(b, p) IN
    IF l.err # "nil" THEN l
    ELSE IF Len(l.val) = 0 \/ l.val[1] # "*" THEN Fail("protocol")
    ELSE LET n == Atoi(Tail(l.val)) IN
         IF ~n.ok THEN Fail("length")
         ELSE IF n.n < 0 THEN Fail("panic")
         ELSE LET a == readArgs(b, l.pos, n.n, <<>>) IN
              IF a.err # "nil" THEN a
              ELSE IF Len(a.val) = 0 THEN Fail("protocol")
              ELSE Read(a.pos, NewCommand(a.val[1], Tail(a.val)))

\* strings.Split(s, " "), from position p on.
RECURSIVE SplitSpaces(_, _, _)
SplitSpaces(s, p, cur) ==
    IF p > Len(s) THEN <<cur>>
    ELSE IF s[p] = " " THEN <<cur>> \o SplitSpaces(s, p + 1, <<>>)
    ELSE SplitSpaces(s, p + 1, Append(cur, s[p]))

readSimpleString(b, p) ==
    LET l == readLine(b, p) IN
    IF l.err # "nil" THEN l
    ELSE IF Len(l.val) = 0 \/ l.val[1] # "+" THEN Fail("protocol")
    ELSE Read(l.pos, Tail(l.val))

readResponse(b, p) ==
    LET s == readSimpleString(b, p) IN
    IF s.err # "nil" THEN s
    ELSE LET parts == SplitSpaces(s.val, 1, <<>>) IN
         Read(s.pos, NewCommand(parts[1], Tail(parts)))

\* DefaultCommandParser.Parse: the loop over the outermost frames of one read.
RECURSIVE ParseFrom(_, _, _, _)
ParseFrom(b, p, cmds, rdb) ==
    IF p > Len(b) THEN [Commands |-> cmds, RDBDump |-> rdb, err |-> "nil"]
    ELSE IF b[p] = "*" THEN
        LET c == readCommand(b, p) IN
        IF c.err # "nil" THEN [Commands |-> cmds, RDBDump |-> rdb, err |-> c.err]
        ELSE ParseFrom(b, c.pos, Append(cmds, c.val), rdb)
    ELSE IF b[p] = "+" THEN
        LET c == readResponse(b, p) IN
        IF c.err # "nil" THEN [Commands |-> cmds, RDBDump |-> rdb, err |-> c.err]
        ELSE ParseFrom(b, c.pos, Append(cmds, c.val), rdb)
    ELSE IF b[p] = "$" THEN
        LET c == readBulkRaw(b, p) IN
        IF c.err # "nil" THEN [Commands |-> cmds, RDBDump |-> rdb, err |-> c.err]
        ELSE ParseFrom(b, c.pos, cmds, IF Len(rdb) = 0 THEN c.val ELSE rdb)
    ELSE [Commands |-> cmds, RDBDump |-> rdb, err |-> "startbyte"]

Parse(rawMessage) == ParseFrom(rawMessage, 1, <<>>, <<>>)

----------------------------------------------------------------------------
(* time.ParseDuration, in ticks.  A duration is a sign and one or more     *)
(* <digits>[.<digits>]<unit> groups; executeSet appends "ms" to its        *)
(* argument.  A group below the clock's resolution is rounded down.        *)

RECURSIVE SkipDigits(_, _)
SkipDigits(s, p) ==
    IF p <= Len(s) /\ IsDigit(s[p]) THEN SkipDigits(s, p + 1) ELSE p

RECURSIVE SkipUnit(_, _)
SkipUnit(s, p) ==
    IF p <= Len(s) /\ s[p] # "." /\ ~IsDigit(s[p]) THEN SkipUnit(s, p + 1) ELSE p

RECURSIVE Pow10(_)
Pow10(n) == IF n = 0 THEN 1 ELSE 10 * Pow10(n - 1)

\* unitMap: the ticks of 1000 units (so that "us" is expressible), 0 when unknown.
UnitTicksPerThousand(u) ==
    IF u = <<"u", "s">> THEN TicksPerMs
    ELSE IF u = <<"m", "s">> THEN 1000 * TicksPerMs
    ELSE IF u = <<"s">> THEN 1000000 * TicksPerMs
    ELSE 0

RECURSIVE DurationGroups(_, _, _)
DurationGroups(s, p, acc) ==
    IF p > Len(s) THEN [ok |-> TRUE, d |-> acc]
    ELSE IF ~(s[p] = "." \/ IsDigit(s[p])) THEN [ok |-> FALSE, d |-> 0]
    ELSE LET q == SkipDigits(s, p)
             dot == q <= Len(s) /\ s[q] = "."
             r == IF dot THEN SkipDigits(s, q + 1) ELSE q
             pre == q > p
             post == dot /\ r > q + 1
             v == DecVal(SubSeq(s, p, q - 1))
             f == IF post THEN DecVal(SubSeq(s, q + 1, r - 1)) ELSE 0
             scale == IF post THEN Pow10(r - q - 1) ELSE 1
             e == SkipUnit(s, r)
             unit == UnitTicksPerThousand(SubSeq(s, r, e - 1))
         IN  IF ~pre /\ ~post THEN [ok |-> FALSE, d |-> 0]
             ELSE IF e = r \/ unit = 0 THEN [ok |-> FALSE, d |-> 0]
             ELSE DurationGroups(s, e, acc + ((v * scale + f) * unit) \div (scale * 1000))

ParseDuration(s) ==
    LET signed == Len(s) > 0 /\ s[1] \in {"-", "+"}
        neg == signed /\ s[1] = "-"
        body == IF signed THEN Tail(s) ELSE s
    IN  IF body = <<"0">> THEN [ok |-> TRUE, d |-> 0]
        ELSE IF Len(body) = 0 THEN [ok |-> FALSE, d |-> 0]
        ELSE LET g == DurationGroups(body, 1, 0) IN
             IF ~g.ok THEN g ELSE [ok |-> TRUE, d |-> IF neg THEN -g.d ELSE g.d]

----------------------------------------------------------------------------
(* storage: the store.  A record is its value and its optional absolute    *)
(* expiration instant; the store maps the keys that have a record.         *)

KVRecord(value) == [Value |-> value, HasExpire |-> FALSE, ExpireAt |-> 0]
KVRecordExpiring(value, at) == [Value |-> value, HasExpire |-> TRUE, ExpireAt |-> at]

NewStorage == <<>>

StorageHas(db, key) == key \in DOMAIN db

\* DefaultStorage.Get: the record of the key as it is stored, or no record.
StorageGet(db, key) ==
    IF StorageHas(db, key) THEN [found |-> TRUE, record |-> db[key]]
    ELSE [found |-> FALSE, record |-> KVRecord(<<>>)]

\* mutant: LoadOrStore in place of Store, the prior record of the key is kept.
StorageSetKeepsPrior(db, key, record) ==
    [x \in (DOMAIN db) \cup {key} |-> IF x \in DOMAIN db THEN db[x] ELSE record]

\* mutant: a record without expiration inherits the expiration of the record it replaces.
StorageSetKeepsExpire(db, key, record) ==
    [x \in (DOMAIN db) \cup {key} |->
        IF x # key THEN db[x]
        ELSE IF key \in DOMAIN db /\ db[key].HasExpire /\ ~record.HasExpire
        THEN KVRecordExpiring(record.Value, db[key].ExpireAt)
        ELSE record]

StorageSet(db, key, record) ==
    [x \in (DOMAIN db) \cup {key} |-> IF x = key THEN record ELSE db[x]]

\* mutant: Delete without the Load that reports a missing key.
StorageDelNoLoad(db, key) ==
    [ok |-> TRUE, db |-> [x \in (DOMAIN db) \ {key} |-> db[x]]]

\* Del: an error (ok = FALSE) when the key has no record, else the record is removed.
StorageDel(db, key) ==
    IF ~StorageHas(db, key) THEN [ok |-> FALSE, db |-> db]
    ELSE [ok |-> TRUE, db |-> [x \in (DOMAIN db) \ {key} |-> db[x]]]

----------------------------------------------------------------------------
(* commands: the handler.  An execute step yields the message to send, the *)
(* command error flag and the store it leaves.                             *)

Exec(msg, failed, db) == [msg |-> msg, CommandError |-> failed, db |-> db]

\* mutant: the reply does not name the command.
executeUnknownCommandUnnamed(command, db) ==
    Exec(Error(<<"Unknown command">>), TRUE, db)

executeUnknownCommand(command, db) ==
    Exec(Error(<<"Unknown command: ">> \o command.Name), TRUE, db)

executePing(command, db) == Exec(SimpleString(PING_REPLY), FALSE, db)

\* mutant: the record is stored as soon as the key and the value are there, before the
\* option is looked at.
executeSetStoresFirst(command, db, t) ==
    IF Len(command.Args) < 2
    THEN Exec(Error(<<"SET command requires at least 2 arguments">>), TRUE, db)
    ELSE LET stored == StorageSet(db, command.Args[1], KVRecord(command.Args[2])) IN
         IF Len(command.Args) > 2
         THEN IF ToLower(command.Args[3]) = PX
              THEN IF Len(command.Args) < 4
                   THEN Exec(Error(<<"SET command with PX requires 4 arguments">>), TRUE, stored)
                   ELSE LET expiration == ParseDuration(command.Args[4] \o MS) IN
                        IF ~expiration.ok
                        THEN Exec(Error(<<"Invalid expiration time: ">>), TRUE, stored)
                        ELSE Exec(SimpleString(OK), FALSE,
                                  StorageSet(db, command.Args[1],
                                             KVRecordExpiring(command.Args[2], t + expiration.d)))
              ELSE Exec(Error(<<"Unsupported expiration format, only PX is supported">>), TRUE, stored)
         ELSE Exec(SimpleString(OK), FALSE, stored)

\* executeSet: Args[1] is the key, Args[2] the value, Args[3] the option, Args[4] its duration.
executeSet(command, db, t) ==
    IF Len(command.Args) < 2
    THEN Exec(Error(<<"SET command requires at least 2 arguments">>), TRUE, db)
    ELSE IF Len(command.Args) > 2
    THEN IF ToLower(command.Args[3]) = PX
         THEN IF Len(command.Args) < 4
              THEN Exec(Error(<<"SET command with PX requires 4 arguments">>), TRUE, db)
              ELSE LET expiration == ParseDuration(command.Args[4] \o MS) IN
                   IF ~expiration.ok
                   THEN Exec(Error(<<"Invalid expiration time: ">>), TRUE, db)
                   ELSE Exec(SimpleString(OK), FALSE,
                             StorageSet(db, command.Args[1],
                                        KVRecordExpiring(command.Args[2], t + expiration.d)))
         ELSE Exec(Error(<<"Unsupported expiration format, only PX is supported">>), TRUE, db)
    ELSE Exec(SimpleString(OK), FALSE,
              StorageSet(db, command.Args[1], KVRecord(command.Args[2])))

\* mutant: an instant counts as being before itself.
NotAfter(t, u) == t <= u

\* time.Time.Before: strictly earlier.
Before(t, u) == t < u

executeGet(command, db, t) ==
    IF Len(command.Args) # 1
    THEN Exec(Error(<<"GET command requires exactly 1 argument">>), TRUE, db)
    ELSE IF ~StorageHas(db, command.Args[1]) THEN Exec(Nil, FALSE, db)
    ELSE LET record == db[command.Args[1]] IN
         IF record.HasExpire /\ Before(record.ExpireAt, t) THEN Exec(Nil, FALSE, db)
         ELSE Exec(BulkString(record.Value), FALSE, db)

\* executeDel: the loop over the arguments, from the i-th one on.
RECURSIVE DelLoop(_, _, _, _)
DelLoop(args, i, count, db) ==
    IF i > Len(args) THEN [count |-> count, db |-> db]
    ELSE LET d == StorageDel(db, args[i]) IN
         IF ~d.ok THEN DelLoop(args, i + 1, count, db)
         ELSE DelLoop(args, i + 1, count + 1, d.db)

executeDel(command, db) ==
    LET r == DelLoop(command.Args, 1, 0, db) IN
    Exec(SimpleInteger(r.count), FALSE, r.db)

\* DefaultCommandHandler.Handle with handlePing, handleSet, handleGet, handleDel and
\* handleUnknownCommand: each executes and then sends the message on the connection.
Handle(command, db, t) ==
    LET e == IF command.Name = PING THEN executePing(command, db)
             ELSE IF command.Name = SET THEN executeSet(command, db, t)
             ELSE IF command.Name = GET THEN executeGet(command, db, t)
             ELSE IF command.Name = DEL THEN executeDel(command, db)
             ELSE executeUnknownCommand(command, db)
    IN  [writes |-> <<e.msg>>, CommandError |-> e.CommandError, db |-> e.db]

----------------------------------------------------------------------------
(* The command engine of one node, driven by one client: the commands the  *)
(* client may send, and the passing of time.                               *)

KeyK == <<"k">>
KeyJ == <<"j">>
Keys == {KeyK, KeyJ}
ValA == <<"a">>
ValB == <<"b">>

SetCommands ==
    { NewCommand(SET, <<KeyK, ValA>>), NewCommand(SET, <<KeyK, ValB>>),
      NewCommand(SET, <<KeyJ, ValA>>),
      NewCommand(SET, <<KeyK, ValA, PX, <<"1">> >>),
      NewCommand(SET, <<KeyK, ValB, <<"P", "X">>, <<"1", ".", "5">> >>),
      NewCommand(SET, <<KeyK, ValA, PX, <<"-", "1">> >>),
      NewCommand(SET, <<KeyK, ValA, PX, <<"x">> >>),
      NewCommand(SET, <<KeyK, ValA, <<"e", "x">>, <<"1">> >>),
      NewCommand(SET, <<KeyK>>) }

RECURSIVE KeyLists(_)
KeyLists(n) ==
    IF n = 0 THEN {<<>>}
    ELSE KeyLists(n - 1) \cup { Append(l, k) : l \in { x \in KeyLists(n - 1) : Len(x) = n - 1 }, k \in Keys }

DelCommands == { NewCommand(DEL, l) : l \in KeyLists(MaxDelKeys) }
GetCommands == { NewCommand(GET, <<k>>) : k \in Keys } \cup { NewCommand(GET, <<>>) }
OtherCommands == { NewCommand(PING, <<>>), NewCommand(<<"e", "c", "h", "o">>, <<ValA>>) }

ClientCommands == SetCommands \cup GetCommands \cup DelCommands \cup OtherCommands

NoCommand == NewCommand(<<>>, <<>>)

\* history: the duration a PX argument of SetCommands stands for, in half milliseconds.
PxHalfMillis(arg) ==
    IF arg = <<"1">> THEN 2
    ELSE IF arg = <<"1", ".", "5">> THEN 3
    ELSE IF arg = <<"-", "1">> THEN -2
    ELSE 0

NoWrite == [kind |-> "none", Value |-> <<>>, HasTTL |-> FALSE, at |-> 0, ttl2 |-> 0]

\* history: the key's last write after command was answered with sent at instant t.
\* A SET counts when it was answered +OK, a DEL when it lists the key.
WriteOf(command, key, sent, t, old) ==
    IF command.Name = SET /\ sent = <<SimpleString(OK)>> /\ command.Args[1] = key
    THEN IF Len(command.Args) > 2
         THEN [kind |-> "set", Value |-> command.Args[2], HasTTL |-> TRUE, at |-> t,
               ttl2 |-> PxHalfMillis(command.Args[4])]
         ELSE [kind |-> "set", Value |-> command.Args[2], HasTTL |-> FALSE, at |-> 0,
               ttl2 |-> 0]
    ELSE IF command.Name = DEL /\ \E i \in 1..Len(command.Args) : command.Args[i] = key
    THEN [kind |-> "del", Value |-> <<>>, HasTTL |-> FALSE, at |-> 0, ttl2 |-> 0]
    ELSE old

InitCodecIdle ==
    /\ frames = <<>>
    /\ buf = <<>>
    /\ result = Parse(<<>>)
    /\ blobs = <<>>

InitEngineIdle ==
    /\ storage = NewStorage
    /\ now = 0
    /\ writes = <<>>
    /\ cmd = NoCommand
    /\ fresh = FALSE
    /\ lastWrite = [k \in Keys |-> NoWrite]
    /\ preKeys = {}
    /\ before = [key |-> <<>>, prior |-> StorageGet(NewStorage, <<>>)]
    /\ fetched = StorageGet(NewStorage, KeyK)
    /\ laterWrites = <<>>

InitSessionIdle ==
    /\ wire = <<>>
    /\ stream = <<>>
    /\ executed = <<>>
    /\ replies = <<>>
    /\ open = TRUE
    /\ peerClosed = FALSE
    /\ framed = FALSE
    /\ wellFormed = TRUE

\* The connections of the primary: two clients and the replica.
ClientConns == {"c1", "c2"}
ReplicaConn == "r"
Conns == ClientConns \cup {ReplicaConn}

Waiting == [pc |-> "read", todo |-> <<>>, conns |-> <<>>, wid |-> 0]

InitReplIdle ==
    /\ pStorage = NewStorage
    /\ slaveConns = {}
    /\ sess = [c \in Conns |-> Waiting]
    /\ inbox = [c \in Conns |-> <<>>]
    /\ outbox = [c \in Conns |-> <<>>]
    /\ issued = [c \in ClientConns |-> 0]
    /\ hs = "ping"
    /\ rStorage = NewStorage
    /\ rWrites = <<>>
    /\ commitLog = <<>>
    /\ propLog = <<>>
    /\ psyncTrace = <<>>
    /\ broken = {}
    /\ snapLog = <<>>
    /\ ackLog = <<>>
    /\ fanLog = <<>>

\* No node has been started: the replica of SpecRepl is a ReplicaServer whose
\* configuration is not looked at.
InitNodeIdle ==
    /\ replicaOf = "nil"
    /\ server = "none"
    /\ exited = FALSE
    /\ listening = FALSE
    /\ hsTrace = <<>>
    /\ streamed = <<>>
    /\ answers = <<>>

\* The goroutines that call the store on their own (SpecStore).
Callers == {"p1", "p2"}

InitStoreIdle ==
    /\ spc = [p \in Callers |-> "idle"]
    /\ hist = [p \in Callers |-> <<>>]

\* No goroutine is inside the pool of replica connections.
InitPoolIdle ==
    /\ ppc = [c \in Conns |-> "idle"]
    /\ unsafe = [c \in Conns |-> FALSE]
    /\ raced = FALSE
    /\ thrown = FALSE
    /\ snaps = <<>>

\* HandleResult{} and a nil error, of no call.
NoOutcome == [conn |-> "none", CommandError |-> FALSE, err |-> FALSE]

InitCallIdle ==
    /\ outcome = NoOutcome
    /\ aborted = FALSE

Init ==
    /\ InitEngineIdle /\ InitCodecIdle /\ InitSessionIdle /\ InitReplIdle /\ InitNodeIdle
    /\ InitStoreIdle /\ InitPoolIdle /\ InitCallIdle

\* The client sends command and the session handles it (Parse has decoded it).
HandleDecoded(command) ==
    LET h == Handle(command, storage, now) IN
    /\ storage' = h.db
    /\ writes' = h.writes
    /\ cmd' = command
    /\ fresh' = TRUE
    /\ preKeys' = DOMAIN storage
    /\ lastWrite' = [k \in Keys |-> WriteOf(command, k, h.writes, now, lastWrite[k])]
    /\ fetched' = IF command.Name = GET /\ Len(command.Args) = 1
                  THEN StorageGet(storage, command.Args[1]) ELSE StorageGet(NewStorage, KeyK)
    /\ UNCHANGED <<now, laterWrites, codecVars, storeVars, poolVars, callVars, sessionVars, replVars, nodeVars>>

HandleCommand(command) == HandleDecoded(command) /\ UNCHANGED before

Tick ==
    /\ now < MaxTime
    /\ now' = now + 1
    /\ fresh' = FALSE
    /\ UNCHANGED <<storage, writes, cmd, lastWrite, preKeys, before, fetched, laterWrites, codecVars, storeVars, poolVars, callVars, sessionVars, replVars, nodeVars>>

Next ==
    \/ \E command \in ClientCommands : HandleCommand(command)
    \/ Tick

Spec == Init /\ [][Next]_vars

----------------------------------------------------------------------------
(* Claims about the command engine (Spec).                                 *)

GetOf(k) == NewCommand(GET, <<k>>)
\* twice the ticks since the key's last write, and twice the ticks of its duration
Elapsed2(k) == 2 * (now - lastWrite[k].at)
Ttl2(k) == lastWrite[k].ttl2 * TicksPerMs

\* C1: after a SET k v that was answered +OK, a GET k returns the bulk string v
\* until the next SET or DEL of k or the expiration of k (the instant of expiration
\* itself is left open here); a GET of a key never set, or deleted and not set
\* again, returns the null bulk.
C1_GetReturnsLastSet ==
    \A k \in Keys :
        (fresh /\ cmd = GetOf(k)) =>
            LET w == lastWrite[k] IN
            /\ w.kind \in {"none", "del"} => writes = <<Nil>>
            /\ (w.kind = "set" /\ ~w.HasTTL) => writes = <<BulkString(w.Value)>>
            /\ (w.kind = "set" /\ w.HasTTL /\ Elapsed2(k) < Ttl2(k))
                    => writes = <<BulkString(w.Value)>>
            /\ (w.kind = "set" /\ w.HasTTL /\ Elapsed2(k) > Ttl2(k)) => writes = <<Nil>>

C1_Witness ==
    /\ fresh
    /\ cmd = GetOf(KeyK)
    /\ lastWrite[KeyK].kind = "set"
    /\ lastWrite[KeyJ].kind = "del"
    /\ writes = <<BulkString(ValB)>>

\* C2 as claimed: after SET k v PX n at t0, a GET k at t0+t returns v for every
\* t < n ms and the null bulk for every t >= n ms, t = n included.
C2_ExpiredAtN ==
    \A k \in Keys :
        (fresh /\ cmd = GetOf(k) /\ lastWrite[k].kind = "set" /\ lastWrite[k].HasTTL) =>
            IF Elapsed2(k) < Ttl2(k)
            THEN writes = <<BulkString(lastWrite[k].Value)>>
            ELSE writes = <<Nil>>

\* C2 as amended: after SET k v PX n at t0, a GET k at t0+t returns v for every
\* t <= n ms and the null bulk for every t > n ms: at t = n the record is still
\* returned.
C2_ExpiredAfterN ==
    \A k \in Keys :
        (fresh /\ cmd = GetOf(k) /\ lastWrite[k].kind = "set" /\ lastWrite[k].HasTTL) =>
            IF Elapsed2(k) <= Ttl2(k)
            THEN writes = <<BulkString(lastWrite[k].Value)>>
            ELSE writes = <<Nil>>

C2_Witness ==
    /\ fresh
    /\ cmd = GetOf(KeyK)
    /\ lastWrite[KeyK].kind = "set"
    /\ lastWrite[KeyK].HasTTL
    /\ lastWrite[KeyK].ttl2 > 0
    /\ Elapsed2(KeyK) = Ttl2(KeyK)
    /\ writes = <<BulkString(lastWrite[KeyK].Value)>>

\* C10 as claimed: DEL L returns the number of entries of L whose key has a record
\* when the call begins, a key listed twice counting twice, and afterwards no key of
\* L has a record.
C10_DelCountsEntries ==
    cmd.Name = DEL =>
        /\ writes = <<SimpleInteger(
               Cardinality({ i \in 1..Len(cmd.Args) : cmd.Args[i] \in preKeys }))>>
        /\ \A i \in 1..Len(cmd.Args) : ~StorageHas(storage, cmd.Args[i])

\* C10 as amended: DEL L returns the number of distinct keys of L that have a record
\* (expired or not) when the call begins, a key listed twice counting once, and
\* afterwards no key of L has a record.
C10_DelCountsKeys ==
    cmd.Name = DEL =>
        /\ writes = <<SimpleInteger(
               Cardinality({ k \in preKeys : \E i \in 1..Len(cmd.Args) : cmd.Args[i] = k }))>>
        /\ \A i \in 1..Len(cmd.Args) : ~StorageHas(storage, cmd.Args[i])

C10_Witness ==
    /\ cmd = NewCommand(DEL, <<KeyK, KeyK>>)
    /\ KeyK \in preKeys
    /\ writes = <<SimpleInteger(1)>>

\* C29: the lookup of the store never returns an expired record: when GET k calls
\* storage.Get(k) and the record of k has an expiration instant in the past, Get
\* reports the key as absent (stated for the records stored with a duration above
\* zero, which were not expired when they were stored).
C29_StoreGetHidesExpired ==
    (/\ fresh /\ cmd.Name = GET /\ Len(cmd.Args) = 1 /\ fetched.found
     /\ lastWrite[cmd.Args[1]].ttl2 > 0) =>
        ~(fetched.record.HasExpire /\ Before(fetched.record.ExpireAt, now))

\* Writes over writes on one key (SpecReplace): the engine of Spec with the commands
\* that set and read one key, and a record of what each stored SET replaced.
ReplaceCommands ==
    { NewCommand(SET, <<KeyK, ValA, PX, <<"1">> >>),
      NewCommand(SET, <<KeyK, ValA, PX, <<"1", ".", "5">> >>),
      NewCommand(SET, <<KeyK, ValA>>), NewCommand(SET, <<KeyK, ValB>>),
      NewCommand(SET, <<KeyJ, ValA>>),
      NewCommand(GET, <<KeyK>>), NewCommand(GET, <<KeyJ>>) }

InitReplace ==
    /\ InitEngineIdle /\ InitCodecIdle /\ InitSessionIdle /\ InitReplIdle /\ InitNodeIdle
    /\ InitStoreIdle /\ InitPoolIdle /\ InitCallIdle

ReplacingCommand(command) ==
    /\ HandleDecoded(command)
    /\ before' = IF command.Name = SET /\ writes' = <<SimpleString(OK)>>
                 THEN [key |-> command.Args[1], prior |-> StorageGet(storage, command.Args[1])]
                 ELSE before

NextReplace ==
    \/ \E command \in ReplaceCommands : ReplacingCommand(command)
    \/ Tick

SpecReplace == InitReplace /\ [][NextReplace]_vars

\* C24: a SET fully replaces the prior record of its key: once the last write of k is
\* a SET k v without PX, whatever record it replaced (one with an expiration too), the
\* record of k is v with no expiration, and a GET k returns v at every later instant.
C24_SetReplacesRecord ==
    \A k \in Keys :
        (lastWrite[k].kind = "set" /\ ~lastWrite[k].HasTTL) =>
            /\ StorageHas(storage, k)
            /\ storage[k] = KVRecord(lastWrite[k].Value)
            /\ (fresh /\ cmd = GetOf(k)) => writes = <<BulkString(lastWrite[k].Value)>>

C24_Witness ==
    /\ before.key = KeyK
    /\ before.prior.found
    /\ before.prior.record = KVRecordExpiring(ValA, 2)
    /\ now > 2
    /\ lastWrite[KeyK].kind = "set"
    /\ ~lastWrite[KeyK].HasTTL
    /\ fresh
    /\ cmd = GetOf(KeyK)
    /\ writes = <<BulkString(ValB)>>

\* The message is an error reply.
IsError(msg) == Len(msg) >= 4 /\ SubSeq(msg, 1, 4) = <<"-", "E", "R", "R">>

\* A decimal non-negative integer: one or more digits and nothing else.
IsDecimalCount(s) == Len(s) > 0 /\ \A i \in 1..Len(s) : IsDigit(s[i])

\* C22: SET k v PX d is answered +OK only when d is a decimal non-negative integer;
\* for every other d (fractional, negative, not a number) the reply is an error and
\* the key gets no record.
C22_PxIsADecimalCount ==
    (cmd.Name = SET /\ Len(cmd.Args) = 4 /\ ToLower(cmd.Args[3]) = PX) =>
        IF IsDecimalCount(cmd.Args[4])
        THEN writes = <<SimpleString(OK)>>
        ELSE /\ Len(writes) = 1 /\ IsError(writes[1])
             /\ StorageHas(storage, cmd.Args[1]) => cmd.Args[1] \in preKeys

----------------------------------------------------------------------------
(* The codec on its own (SpecCodec): a writer encodes command frames with  *)
(* BulkArray, one after the other on one stream, as Client.PropagateSet    *)
(* does, and the reader parses the whole stream.                           *)

CodecStrings == { <<"g", "e", "T">>, <<>>, <<"$", "1", CR, LF, "*">> }

RECURSIVE StringLists(_)
StringLists(n) ==
    IF n = 0 THEN {<<>>}
    ELSE StringLists(n - 1)
            \cup { Append(l, x) : l \in { y \in StringLists(n - 1) : Len(y) = n - 1 },
                                  x \in CodecStrings }

CodecElements == { l \in StringLists(MaxElems) : Len(l) >= 1 }

InitCodec ==
    /\ InitEngineIdle /\ InitCodecIdle /\ InitSessionIdle /\ InitReplIdle /\ InitNodeIdle
    /\ InitStoreIdle /\ InitPoolIdle /\ InitCallIdle

EncodeAndParse(elements) ==
    /\ Len(frames) < MaxFrames
    /\ frames' = Append(frames, elements)
    /\ buf' = buf \o BulkArray(elements)
    /\ result' = Parse(buf')
    /\ UNCHANGED blobs
    /\ UNCHANGED <<engineVars, sessionVars, replVars, nodeVars, storeVars, poolVars, callVars>>

NextCodec == \E elements \in CodecElements : EncodeAndParse(elements)

SpecCodec == InitCodec /\ [][NextCodec]_vars

\* C8: Parse(BulkArray([name, a1..an])) is exactly one command with Name the
\* upper-cased name and Args a1..an byte for byte, and the concatenation of several
\* encoded frames parses to the same commands in the same order.
C8_FramingRoundTrip ==
    /\ result.err = "nil"
    /\ Len(result.Commands) = Len(frames)
    /\ \A i \in 1..Len(frames) :
          /\ result.Commands[i].Name = ToUpper(frames[i][1])
          /\ result.Commands[i].Args = Tail(frames[i])

C8_Witness ==
    /\ Len(frames) = 2
    /\ frames[1] = << <<"g", "e", "T">>, <<"$", "1", CR, LF, "*">> >>
    /\ frames[2] = << <<"g", "e", "T">>, <<>> >>
    /\ result.Commands[1] = [Name |-> GET, Args |-> << <<"$", "1", CR, LF, "*">> >>]
    /\ result.Commands[2] = [Name |-> GET, Args |-> << <<>> >>]

----------------------------------------------------------------------------
(* One client connection of MasterServer (SpecSession): the client writes  *)
(* messages, the network hands them to conn.Read in pieces of any size,    *)
(* and handleConnection parses each piece on its own and handles the       *)
(* commands it holds.                                                      *)

BufferSize == 4096      \* make([]byte, 1024*4)

SessionElements ==
    { <<SET, KeyK, ValA>>, <<GET, KeyK>>, <<PING>> }

SessionFrames == { BulkArray(elements) : elements \in SessionElements }

\* An inline command: its first byte is none of '*', '+', '$'.
InlinePing == <<"P", "I", "N", "G">> \o CRLF

SessionMessages == SessionFrames \cup {InlinePing}

Min(a, b) == IF a < b THEN a ELSE b

\* handleConnection's loop over result.Commands, from the i-th command on.
RECURSIVE HandleAll(_, _, _, _, _)
HandleAll(commands, i, db, t, sent) ==
    IF i > Len(commands) THEN [db |-> db, sent |-> sent]
    ELSE LET h == Handle(commands[i], db, t) IN
         HandleAll(commands, i + 1, h.db, t, sent \o Concat(h.writes))

InitSession ==
    /\ InitEngineIdle /\ InitCodecIdle /\ InitSessionIdle /\ InitReplIdle /\ InitNodeIdle
    /\ InitStoreIdle /\ InitPoolIdle /\ InitCallIdle

ClientSend(message) ==
    /\ ~peerClosed
    /\ Len(stream) < MaxSends
    /\ wire' = wire \o message
    /\ stream' = Append(stream, message)
    /\ wellFormed' = (wellFormed /\ message \in SessionFrames)
    /\ UNCHANGED <<executed, replies, open, peerClosed, framed>>
    /\ UNCHANGED <<engineVars, codecVars, storeVars, poolVars, callVars, replVars, nodeVars>>

ClientClose ==
    /\ ~peerClosed
    /\ peerClosed' = TRUE
    /\ UNCHANGED <<wire, stream, executed, replies, open, framed, wellFormed>>
    /\ UNCHANGED <<engineVars, codecVars, storeVars, poolVars, callVars, replVars, nodeVars>>

\* One turn of the loop: conn.Read returns the first n bytes, Parse decodes them, and
\* either the error is logged and the loop continues or every command is handled.
ServerRead(n) ==
    /\ open
    /\ n \in 1..Min(Len(wire), BufferSize)
    /\ \E parsed \in {Parse(SubSeq(wire, 1, n))} :
       \E h \in {HandleAll(parsed.Commands, 1, storage, now, <<>>)} :
           /\ wire' = SubSeq(wire, n + 1, Len(wire))
           /\ framed' = (framed \/ parsed.err = "startbyte")
           /\ IF parsed.err # "nil"
              THEN UNCHANGED <<storage, executed, replies>>
              ELSE /\ storage' = h.db
                   /\ executed' = executed \o parsed.Commands
                   /\ replies' = replies \o h.sent
    /\ UNCHANGED <<stream, open, peerClosed, wellFormed>>
    /\ UNCHANGED <<now, writes, cmd, fresh, lastWrite, preKeys, before, fetched, laterWrites, codecVars, storeVars, poolVars, callVars, replVars, nodeVars>>

\* conn.Read returns io.EOF: handleConnection returns and the deferred Close runs.
ServerReadEOF ==
    /\ open
    /\ peerClosed
    /\ wire = <<>>
    /\ open' = FALSE
    /\ UNCHANGED <<wire, stream, executed, replies, peerClosed, framed, wellFormed>>
    /\ UNCHANGED <<engineVars, codecVars, storeVars, poolVars, callVars, replVars, nodeVars>>

NextSession ==
    \/ \E message \in SessionMessages : ClientSend(message)
    \/ ClientClose
    \/ \E n \in 1..Len(wire) : ServerRead(n)
    \/ ServerReadEOF

SpecSession == InitSession /\ [][NextSession]_vars

\* C7: once every byte of a well-formed stream of frames has been read, however the
\* bytes were split into reads, the session has executed exactly the commands that one
\* read of the whole stream decodes, in the same order.
C7_SplitReadsExecuteTheSame ==
    (wellFormed /\ wire = <<>>) => executed = Parse(Concat(stream)).Commands

\* C9: after a read that fails on a start byte other than '*', '+' or '$' the
\* connection is closed and nothing has been written on it for that read.
C9_FramingErrorCloses ==
    framed => ~open

----------------------------------------------------------------------------
(* The parser of the primary `Server`: only arrays are frames.             *)

RECURSIVE ParseV2From(_, _, _)
ParseV2From(b, p, cmds) ==
    IF p > Len(b) THEN [Commands |-> cmds, err |-> "nil"]
    ELSE IF b[p] = "*" THEN
        LET c == readCommand(b, p) IN
        IF c.err # "nil" THEN [Commands |-> cmds, err |-> c.err]
        ELSE ParseV2From(b, c.pos, Append(cmds, c.val))
    ELSE [Commands |-> cmds, err |-> "startbyte"]

ParseV2(rawMessage) == ParseV2From(rawMessage, 1, <<>>)

----------------------------------------------------------------------------
(* The handler of the primary `Server` (its store is a sync.Map and it     *)
(* holds the pool of replica connections).  INFO is left out: no input of  *)
(* the specifications is an INFO command.                                  *)

replIDLength == 40

\* Config.ReplicationID: generateReplicaID draws replIDLength bytes of alphanum.
ReplicationID == [i \in 1..replIDLength |-> "a"]

LISTENING_PORT == <<"l", "i", "s", "t", "e", "n", "i", "n", "g", "-", "p", "o", "r", "t">>
CAPA == <<"c", "a", "p", "a">>
PSYNC2 == <<"p", "s", "y", "n", "c", "2">>

executePingStrict(command, db) ==
    IF Len(command.Args) # 0
    THEN Exec(Error(<<"PING command does not require any arguments">>), TRUE, db)
    ELSE Exec(SimpleString(PING_REPLY), FALSE, db)

\* strings.Join of the one argument is the argument.
executeEcho(command, db) ==
    IF Len(command.Args) # 1
    THEN Exec(Error(<<"ECHO command requires exactly 1 argument">>), TRUE, db)
    ELSE Exec(BulkString(command.Args[1]), FALSE, db)

executeReplConf(command, db) ==
    IF Len(command.Args) # 2
    THEN Exec(Error(<<"REPLCONF command requires exactly 2 arguments">>), TRUE, db)
    ELSE IF ToLower(command.Args[1]) = LISTENING_PORT
    THEN Exec(SimpleString(OK), FALSE, db)
    ELSE IF ToLower(command.Args[1]) = CAPA /\ ToLower(command.Args[2]) = PSYNC2
    THEN Exec(SimpleString(OK), FALSE, db)
    ELSE Exec(Error(<<"REPLCONF command only supports 'listening-port <PORT>' and 'capa psync2' arguments">>),
              TRUE, db)

\* mutant: only the number of arguments is checked.
executePSyncAnyArguments(command, db) ==
    IF Len(command.Args) # 2
    THEN Exec(Error(<<"PSYNC command requires exactly 2 arguments">>), TRUE, db)
    ELSE Exec(SimpleString(FULLRESYNC \o <<" ">> \o ReplicationID \o <<" ", "0">>), FALSE, db)

executePSync(command, db) ==
    IF Len(command.Args) # 2
    THEN Exec(Error(<<"PSYNC command requires exactly 2 arguments">>), TRUE, db)
    ELSE IF command.Args[1] # <<"?">> \/ command.Args[2] # <<"-", "1">>
    THEN Exec(Error(<<"PSYNC command only supports '?' and '-1' arguments">>), TRUE, db)
    ELSE Exec(SimpleString(FULLRESYNC \o <<" ">> \o ReplicationID \o <<" ", "0">>), FALSE, db)

\* hex.DecodeString of the empty database file.
DBContent ==
    <<
       "R", "E", "D", "I", "S", "0", "0", "1", "1", "xFA", "x09",
       "r", "e", "d", "i", "s", "-", "v", "e", "r", "x05", "7",
       ".", "2", ".", "0", "xFA", LF, "r", "e", "d", "i", "s",
       "-", "b", "i", "t", "s", "xC0", "@", "xFA", "x05", "c", "t",
       "i", "m", "e", "xC2", "m", "x08", "xBC", "e", "xFA", "x08", "u",
       "s", "e", "d", "-", "m", "e", "m", "xC2", "xB0", "xC4", "x10",
       "x00", "xFA", "x08", "a", "o", "f", "-", "b", "a", "s", "e",
       "xC0", "x00", "xFF", "xF0", "n", ";", "xFE", "xC0", "xFF", "Z", "xA2" >>

getDBFile == FileContent(DBContent)

\* Server's Handle for every command but PSYNC, whose handler takes three steps: the
\* message the handler sends (the primary is no slave, so handleSet sends too) and the
\* store it leaves.
ServerHandle(command, db, t) ==
    IF command.Name = PING THEN executePingStrict(command, db)
    ELSE IF command.Name = ECHO THEN executeEcho(command, db)
    ELSE IF command.Name = SET THEN executeSet(command, db, t)
    ELSE IF command.Name = GET THEN executeGet(command, db, t)
    ELSE IF command.Name = REPLCONF THEN executeReplConf(command, db)
    ELSE executeUnknownCommand(command, db)

\* protocol.IsWriteCommand: SET is the one write command.
IsWriteCommand(command) == command.Name = SET

\* Server.shouldPropagateCommand on the primary (Config.IsSlave() is false).
shouldPropagateCommand(command) == IsWriteCommand(command)

\* Client.PropagateSet: the frame written on the replica's connection.
PropagateSet(command) == BulkArray(<<SET>> \o command.Args)

----------------------------------------------------------------------------
(* The handler of `ReplicaServer` (the later handler: REPLCONF, PSYNC and  *)
(* FULLRESYNC are commands, and every SET is answered).                    *)

Done(written, db) == [writes |-> written, db |-> db, panicked |-> FALSE]

\* handleFullresync indexes Args[0] and Args[1] and writes nothing.
handleFullresync(command, db) ==
    IF Len(command.Args) < 2
    THEN [writes |-> <<>>, db |-> db, panicked |-> TRUE]
    ELSE Done(<<>>, db)

executePsync(command, db) ==
    IF Len(command.Args) # 2
    THEN Exec(Error(<<"PSYNC command requires exactly 2 arguments">>), TRUE, db)
    ELSE IF command.Args[1] # <<"?">> \/ command.Args[2] # <<"-", "1">>
    THEN Exec(Error(<<"PSYNC command only supports '?' and '-1' arguments">>), TRUE, db)
    ELSE Exec(SimpleString(FULLRESYNC \o <<" ", "t", "e", "s", "t", " ", "0">>), FALSE, db)

handlePsync(command, db) ==
    LET e == executePsync(command, db) IN
    IF e.CommandError THEN Done(<<e.msg>>, db) ELSE Done(<<e.msg, getDBFile>>, db)

\* mutant: the tokens are compared byte for byte, without strings.ToLower.
executeReplConfJoinExact(command, db) ==
    IF Len(command.Args) # 2
    THEN Exec(Error(<<"REPLCONF command requires exactly 2 arguments">>), TRUE, db)
    ELSE IF command.Args[1] = LISTENING_PORT
    THEN Exec(SimpleString(OK), FALSE, db)
    ELSE IF command.Args[1] = CAPA /\ command.Args[2] = PSYNC2
    THEN Exec(SimpleString(OK), FALSE, db)
    ELSE Exec(Error(<<"REPLCONF command only supports 'listening-port <PORT>', and 'capa psync2' arguments, got: ">>
                    \o command.Args[1] \o <<",", " ">> \o command.Args[2]),
              TRUE, db)

executeReplConfJoin(command, db) ==
    IF Len(command.Args) # 2
    THEN Exec(Error(<<"REPLCONF command requires exactly 2 arguments">>), TRUE, db)
    ELSE IF ToLower(command.Args[1]) = LISTENING_PORT
    THEN Exec(SimpleString(OK), FALSE, db)
    ELSE IF ToLower(command.Args[1]) = CAPA /\ ToLower(command.Args[2]) = PSYNC2
    THEN Exec(SimpleString(OK), FALSE, db)
    ELSE Exec(Error(<<"REPLCONF command only supports 'listening-port <PORT>', and 'capa psync2' arguments, got: ">>
                    \o command.Args[1] \o <<",", " ">> \o command.Args[2]),
              TRUE, db)

\* handleSet: executeSet, then sendMsg whatever the connection is.
handleSet(command, db, t) ==
    LET e == executeSet(command, db, t) IN Done(<<e.msg>>, e.db)

ReplicaHandle(command, db, t) ==
    IF command.Name = FULLRESYNC THEN handleFullresync(command, db)
    ELSE IF command.Name = PSYNC THEN handlePsync(command, db)
    ELSE IF command.Name = SET THEN handleSet(command, db, t)
    ELSE LET e == IF command.Name = PING THEN executePing(command, db)
                  ELSE IF command.Name = GET THEN executeGet(command, db, t)
                  ELSE IF command.Name = DEL THEN executeDel(command, db)
                  ELSE IF command.Name = REPLCONF THEN executeReplConfJoin(command, db)
                  ELSE executeUnknownCommand(command, db)
         IN  Done(<<e.msg>>, e.db)

\* The loop over result.Commands of a ReplicaServer session, from the i-th command
\* on: the store it leaves and, per command handled, the messages written for it.
RECURSIVE ReplicaHandleAll(_, _, _, _, _)
ReplicaHandleAll(commands, i, db, t, each) ==
    IF i > Len(commands) THEN [db |-> db, each |-> each, panicked |-> FALSE]
    ELSE LET h == ReplicaHandle(commands[i], db, t) IN
         IF h.panicked THEN [db |-> db, each |-> each, panicked |-> TRUE]
         ELSE ReplicaHandleAll(commands, i + 1, h.db, t, Append(each, h.writes))

----------------------------------------------------------------------------
(* Replication (SpecRepl): a primary `Server` with two client connections  *)
(* and the connection of one `ReplicaServer`.  Each connection of the      *)
(* primary is served by its own goroutine; a goroutine's steps are its     *)
(* accesses to what the goroutines share: the store, the pool and the      *)
(* connections.  The primary reads all the bytes that wait on a            *)
(* connection in one Read; the replica's Read returns any number of them.  *)

ServerBufferSize == 1024    \* make([]byte, 1024)

\* Config.ServerPort of the replica, as strconv.Itoa renders it.
ReplicaPort == <<"6", "3", "8", "0">>

\* What each client writes: a SET of the same key, each with its own value.
ClientElements(c) == IF c = "c1" THEN <<SET, KeyK, ValA>> ELSE <<SET, KeyK, ValB>>

\* ParseResponse on the bytes b: the prefix byte and the line after it.
ParseResponse(b) ==
    LET i == IndexOfLF(b, 2) IN
    [Type |-> b[1],
     Value |-> IF i > 2 /\ b[i - 1] = CR THEN SubSeq(b, 2, i - 2) ELSE SubSeq(b, 2, i),
     pos |-> i + 1]

\* A handshake that takes any reply for the expected one.
AcceptAnyResponse(b, expected) == TRUE

\* expectSimpleResponse returns no error.
expectSimpleResponse(b, expected) ==
    LET resp == ParseResponse(b) IN resp.Type = "+" /\ resp.Value = expected

InitRepl ==
    /\ InitEngineIdle /\ InitCodecIdle /\ InitSessionIdle /\ InitReplIdle /\ InitNodeIdle
    /\ InitStoreIdle /\ InitPoolIdle /\ InitCallIdle

\* The goroutine of connection c is done with the command at the head of its list.
Finished(c) ==
    [pc |-> IF Len(sess[c].todo) > 1 THEN "handle" ELSE "read",
     todo |-> Tail(sess[c].todo), conns |-> <<>>, wid |-> 0]

ClientWrite(c) ==
    /\ issued[c] < MaxClientCmds
    /\ issued' = [issued EXCEPT ![c] = @ + 1]
    /\ inbox' = [inbox EXCEPT ![c] = @ \o BulkArray(ClientElements(c))]
    /\ UNCHANGED <<pStorage, slaveConns, sess, outbox, hs, rStorage, rWrites, commitLog,
                   propLog, psyncTrace>>
    /\ UNCHANGED fanVars
    /\ UNCHANGED <<engineVars, codecVars, storeVars, poolVars, callVars, sessionVars, nodeVars>>

\* Server.handleConnection: conn.Read and Parse; a parse error drops what was read.
SessionRead(c) ==
    /\ sess[c].pc = "read"
    /\ c \notin broken
    /\ inbox[c] # <<>>
    /\ \E n \in {Min(Len(inbox[c]), ServerBufferSize)} :
       \E parsed \in {ParseV2(SubSeq(inbox[c], 1, n))} :
           /\ inbox' = [inbox EXCEPT ![c] = SubSeq(@, n + 1, Len(@))]
           /\ sess' = [sess EXCEPT ![c] =
                          IF parsed.err # "nil" \/ parsed.Commands = <<>> THEN Waiting
                          ELSE [pc |-> "handle", todo |-> parsed.Commands,
                                conns |-> <<>>, wid |-> 0]]
    /\ UNCHANGED <<pStorage, slaveConns, outbox, issued, hs, rStorage, rWrites, commitLog,
                   propLog, psyncTrace>>
    /\ UNCHANGED fanVars
    /\ UNCHANGED <<engineVars, codecVars, storeVars, poolVars, callVars, sessionVars, nodeVars>>

\* CommandHandler.Handle of the command at the head of the list.  PSYNC: executePSync
\* and the first sendMsg of handlePSync.  Any other command: its execute and sendMsg.
\* A sendMsg that fails makes Handle return the error, and handleConnection goes on
\* to the next command.
ServeCommand(c) ==
    /\ sess[c].pc = "handle"
    /\ \E command \in {Head(sess[c].todo)} :
       IF command.Name = PSYNC
       THEN \E e \in {executePSync(command, pStorage)} :
              /\ outbox' = [outbox EXCEPT ![c] = IF c \in broken THEN @ ELSE @ \o e.msg]
              /\ IF e.CommandError \/ c \in broken
                 THEN /\ sess' = [sess EXCEPT ![c] = Finished(c)]
                      /\ UNCHANGED psyncTrace
                 ELSE /\ sess' = [sess EXCEPT ![c].pc = "psync_add"]
                      /\ psyncTrace' = Append(psyncTrace, "fullresync")
              /\ UNCHANGED <<pStorage, commitLog>>
       ELSE \E e \in {ServerHandle(command, pStorage, now)} :
              /\ pStorage' = e.db
              /\ outbox' = [outbox EXCEPT ![c] = IF c \in broken THEN @ ELSE @ \o e.msg]
              /\ commitLog' = IF command.Name = SET /\ ~e.CommandError
                              THEN Append(commitLog,
                                          [Value |-> command.Args[2],
                                           attached |-> ReplicaConn \in slaveConns
                                                        /\ sess[ReplicaConn].pc = "read"])
                              ELSE commitLog
              /\ sess' = [sess EXCEPT ![c] =
                             IF c \notin broken /\ shouldPropagateCommand(command)
                             THEN [@ EXCEPT !.pc = "getconns",
                                            !.wid = IF e.CommandError THEN 0
                                                    ELSE Len(commitLog')]
                             ELSE Finished(c)]
              /\ UNCHANGED psyncTrace
    /\ UNCHANGED <<slaveConns, inbox, issued, hs, rStorage, rWrites, propLog>>
    /\ UNCHANGED <<broken, snapLog, fanLog>>
    /\ UNCHANGED <<engineVars, codecVars, storeVars, poolVars, callVars, sessionVars, nodeVars>>

SessionHandle(c) == ServeCommand(c) /\ UNCHANGED ackLog

\* handlePSync, second step: getDBFile has no error, slaveConns.Add(conn).  The pool's
\* map has no lock; Add and GetAll are taken here as steps that do not overlap.
PSyncAdd(c) ==
    /\ sess[c].pc = "psync_add"
    /\ slaveConns' = slaveConns \cup {c}
    /\ sess' = [sess EXCEPT ![c].pc = "psync_file"]
    /\ psyncTrace' = Append(psyncTrace, "attach")
    /\ UNCHANGED <<pStorage, inbox, outbox, issued, hs, rStorage, rWrites, commitLog,
                   propLog>>
    /\ UNCHANGED fanVars
    /\ UNCHANGED <<engineVars, codecVars, storeVars, poolVars, callVars, sessionVars, nodeVars>>

\* handlePSync, third step: sendMsg of the database file.
PSyncSendFile(c) ==
    /\ sess[c].pc = "psync_file"
    /\ outbox' = [outbox EXCEPT ![c] = IF c \in broken THEN @ ELSE @ \o getDBFile]
    /\ sess' = [sess EXCEPT ![c] = Finished(c)]
    /\ psyncTrace' = IF c \in broken THEN psyncTrace ELSE Append(psyncTrace, "snapshot")
    /\ UNCHANGED fanVars
    /\ UNCHANGED <<pStorage, slaveConns, inbox, issued, hs, rStorage, rWrites, commitLog,
                   propLog>>
    /\ UNCHANGED <<engineVars, codecVars, storeVars, poolVars, callVars, sessionVars, nodeVars>>

\* The orders in which ranging over the pool's map may yield its connections.
RECURSIVE Orders(_)
Orders(S) ==
    IF S = {} THEN {<<>>}
    ELSE UNION { { <<x>> \o o : o \in Orders(S \ {x}) } : x \in S }

\* The sinks a failed client.Propagate has been logged for.
FailedSinks == { fanLog[i].conn : i \in { k \in 1..Len(fanLog) : ~fanLog[k].ok } }

\* The connections whose handleConnection has returned (conn.Close has run).
ClosedConns == { s \in Conns : sess[s].pc = "closed" }

\* GetSlaveConns after a write command: the connections the frame will be written to.
GetSlaveConns(c) ==
    /\ sess[c].pc = "getconns"
    /\ \E order \in Orders(slaveConns) :
          sess' = [sess EXCEPT ![c] =
                      IF order = <<>> THEN Finished(c)
                      ELSE [@ EXCEPT !.pc = "propagate", !.conns = order]]
    /\ UNCHANGED <<pStorage, slaveConns, inbox, outbox, issued, hs, rStorage, rWrites,
                   commitLog, propLog, psyncTrace, broken, fanLog>>
    /\ UNCHANGED <<engineVars, codecVars, storeVars, poolVars, callVars, sessionVars, nodeVars>>

SessionGetSlaveConns(c) == GetSlaveConns(c) /\ UNCHANGED <<snapLog, ackLog>>

\* A fan-out loop that gives up at the first error.
AbortOnError(conns, failed) == IF failed THEN <<>> ELSE Tail(conns)

\* The fan-out loop after client.Propagate to the head of conns: an error is logged
\* and the loop continues with the next connection.
AfterPropagate(conns, failed) == Tail(conns)

\* client.Propagate to the next connection of the list.
SessionPropagate(c) ==
    /\ sess[c].pc = "propagate"
    /\ \E conn \in {Head(sess[c].conns)} :
          /\ outbox' = [outbox EXCEPT ![conn] =
                           IF conn \in broken THEN @
                           ELSE @ \o PropagateSet(Head(sess[c].todo))]
          /\ propLog' = IF conn = ReplicaConn /\ conn \notin broken
                        THEN Append(propLog, sess[c].wid)
                        ELSE propLog
          /\ fanLog' = Append(fanLog, [wid |-> sess[c].wid, conn |-> conn,
                                       ok |-> conn \notin broken])
          /\ \E rest \in {AfterPropagate(sess[c].conns, conn \in broken)} :
                sess' = [sess EXCEPT ![c] =
                            IF rest # <<>> THEN [@ EXCEPT !.conns = rest]
                            ELSE Finished(c)]
    /\ UNCHANGED <<pStorage, slaveConns, inbox, issued, hs, rStorage, rWrites, commitLog,
                   psyncTrace, broken, snapLog, ackLog>>
    /\ UNCHANGED <<engineVars, codecVars, storeVars, poolVars, callVars, sessionVars, nodeVars>>

\* The entries of hsTrace: a command the handshake wrote, a reply line it read.
Sent(elements) == [op |-> "send", bytes |-> BulkArray(elements)]
Received(reply) == [op |-> "recv", bytes |-> reply]

\* ReplicaServer.handshake: conn.Write of PING.
handshakePing ==
    /\ hs = "ping"
    /\ inbox' = [inbox EXCEPT ![ReplicaConn] = @ \o BulkArray(<<PING>>)]
    /\ hs' = "replconf_port"
    /\ hsTrace' = Append(hsTrace, Sent(<<PING>>))
    /\ UNCHANGED <<pStorage, slaveConns, sess, outbox, issued, rStorage, rWrites, commitLog,
                   propLog, psyncTrace>>
    /\ UNCHANGED fanVars
    /\ UNCHANGED <<engineVars, codecVars, storeVars, poolVars, callVars, sessionVars>>
    /\ UNCHANGED <<replicaOf, server, exited, listening, streamed, answers>>

\* The rest of the handshake: expectSimpleResponse takes the reply to the command
\* written before (it waits for a whole line), and the next command is written.  A
\* reply that is not the expected one ends the handshake with an error.
handshakeStep(at, expected, elements, next) ==
    /\ hs = at
    /\ IndexOfLF(outbox[ReplicaConn], 1) # 0
    /\ outbox' = [outbox EXCEPT ![ReplicaConn] =
                     SubSeq(@, ParseResponse(@).pos, Len(@))]
    /\ \E reply \in {SubSeq(outbox[ReplicaConn], 1, ParseResponse(outbox[ReplicaConn]).pos - 1)} :
          IF expectSimpleResponse(outbox[ReplicaConn], expected)
          THEN /\ inbox' = [inbox EXCEPT ![ReplicaConn] = @ \o BulkArray(elements)]
               /\ hs' = next
               /\ hsTrace' = hsTrace \o <<Received(reply), Sent(elements)>>
          ELSE /\ hs' = "failed"
               /\ hsTrace' = Append(hsTrace, Received(reply))
               /\ UNCHANGED inbox
    /\ UNCHANGED <<pStorage, slaveConns, sess, issued, rStorage, rWrites, commitLog,
                   propLog, psyncTrace>>
    /\ UNCHANGED fanVars
    /\ UNCHANGED <<engineVars, codecVars, storeVars, poolVars, callVars, sessionVars>>
    /\ UNCHANGED <<replicaOf, server, exited, listening, streamed, answers>>

handshakeReplConfPort ==
    handshakeStep("replconf_port", PING_REPLY, <<REPLCONF, LISTENING_PORT, ReplicaPort>>,
                  "replconf_capa")

handshakeReplConfCapa ==
    handshakeStep("replconf_capa", OK, <<REPLCONF, CAPA, PSYNC2>>, "psync")

\* After PSYNC is written the handshake returns and handleReplicationConnection runs.
handshakePSync ==
    handshakeStep("psync", OK, <<PSYNC, <<"?">>, <<"-", "1">> >>, "streaming")

\* One turn of handleReplicationConnection: conn.Read returns the first n bytes, Parse
\* decodes them, and either the error is logged and the loop continues or every
\* command is handled, with the primary's connection as the connection to answer on.
ReplicaRead(n) ==
    /\ hs = "streaming"
    /\ n \in 1..Min(Len(outbox[ReplicaConn]), BufferSize)
    /\ outbox' = [outbox EXCEPT ![ReplicaConn] = SubSeq(@, n + 1, Len(@))]
    /\ \E parsed \in {Parse(SubSeq(outbox[ReplicaConn], 1, n))} :
          IF parsed.err # "nil"
          THEN UNCHANGED <<rStorage, rWrites, inbox, hs>>
          ELSE \E h \in {ReplicaHandleAll(parsed.Commands, 1, rStorage, now, <<>>)} :
               \E sent \in {Concat(Concat(h.each))} :
                  /\ rStorage' = h.db
                  /\ rWrites' = rWrites \o sent
                  /\ inbox' = [inbox EXCEPT ![ReplicaConn] = @ \o sent]
                  /\ hs' = IF h.panicked THEN "crashed" ELSE hs
    /\ UNCHANGED <<pStorage, slaveConns, sess, issued, commitLog, propLog, psyncTrace>>
    /\ UNCHANGED fanVars
    /\ UNCHANGED <<engineVars, codecVars, storeVars, poolVars, callVars, sessionVars, nodeVars>>

NextRepl ==
    \/ \E c \in ClientConns : ClientWrite(c)
    \/ \E c \in Conns : SessionRead(c)
    \/ \E c \in Conns : SessionHandle(c)
    \/ \E c \in Conns : PSyncAdd(c)
    \/ \E c \in Conns : PSyncSendFile(c)
    \/ \E c \in Conns : SessionGetSlaveConns(c)
    \/ \E c \in Conns : SessionPropagate(c)
    \/ handshakePing
    \/ handshakeReplConfPort
    \/ handshakeReplConfCapa
    \/ handshakePSync
    \/ \E n \in 1..Len(outbox[ReplicaConn]) : ReplicaRead(n)

SpecRepl == InitRepl /\ [][NextRepl]_vars

----------------------------------------------------------------------------
(* Claims about replication (SpecRepl).                                    *)

\* Nothing is in flight and no goroutine of the primary is at work.
Quiescent ==
    /\ hs = "streaming"
    /\ \A c \in Conns : sess[c].pc = "read" /\ inbox[c] = <<>>
    /\ outbox[ReplicaConn] = <<>>

\* What GET key answers on the replica.
ReplicaGet(key) == executeGet(NewCommand(GET, <<key>>), rStorage, now).msg

\* C3: a SET that the primary stored while the replica was attached, with no other
\* write, is applied on the replica once everything sent has been read, however the
\* bytes were split into reads: GET on the replica returns its value.
C3_SetReachesReplica ==
    (Quiescent /\ Len(commitLog) = 1 /\ commitLog[1].attached)
        => ReplicaGet(KeyK) = BulkString(commitLog[1].Value)

\* C4: the frames written on the replica's connection are in the order in which the
\* primary stored their writes.
C4_PropagationInCommitOrder ==
    \A i, j \in 1..Len(propLog) : i < j => propLog[i] < propLog[j]

\* C5: the replica's session with the primary writes no byte back to the primary.
C5_NoBytesBackToPrimary ==
    rWrites = <<>>

IsPrefix(s, t) == Len(s) <= Len(t) /\ s = SubSeq(t, 1, Len(s))

\* C6: PSYNC ? -1 makes the primary reply +FULLRESYNC, then send the snapshot, then
\* attach the connection to the pool, in this order.
C6_PSyncOrder ==
    IsPrefix(psyncTrace, <<"fullresync", "snapshot", "attach">>)

\* C39: whatever the interleaving of the PSYNC session with the sessions of the
\* clients, no propagation frame is written on the replica's connection before the
\* snapshot of its PSYNC has been written on it.
C39_NoFrameBeforeTheSnapshot ==
    propLog # <<>> => \E i \in 1..Len(psyncTrace) : psyncTrace[i] = "snapshot"

----------------------------------------------------------------------------
(* Fan-out with failing connections (SpecFanout): the primary `Server`     *)
(* with one client, c1, and two connections that send PSYNC ? -1 and then  *)
(* only receive, c2 and r.  A connection can fail at any moment: from then *)
(* on conn.Write and conn.Read on it return an error.                      *)

FanoutClient == "c1"
FanoutSinks == Conns \ {FanoutClient}

InitFanout ==
    /\ InitEngineIdle /\ InitCodecIdle /\ InitSessionIdle /\ InitReplIdle /\ InitNodeIdle
    /\ InitStoreIdle /\ InitPoolIdle /\ InitCallIdle

\* A sink asks for a full resynchronisation, unless it is attached or has asked.
SinkWrite(c) ==
    /\ c \notin slaveConns
    /\ c \notin broken
    /\ sess[c].pc = "read"
    /\ inbox[c] = <<>>
    /\ inbox' = [inbox EXCEPT ![c] = BulkArray(<<PSYNC, <<"?">>, <<"-", "1">> >>)]
    /\ UNCHANGED <<pStorage, slaveConns, sess, outbox, issued, hs, rStorage, rWrites,
                   commitLog, propLog, psyncTrace, fanVars>>
    /\ UNCHANGED <<engineVars, codecVars, storeVars, poolVars, callVars, sessionVars, nodeVars>>

\* The connection c fails.
ConnBreak(c) ==
    /\ c \notin broken
    /\ broken' = broken \cup {c}
    /\ UNCHANGED <<pStorage, slaveConns, sess, inbox, outbox, issued, hs, rStorage, rWrites,
                   commitLog, propLog, psyncTrace, snapLog, ackLog, fanLog>>
    /\ UNCHANGED <<engineVars, codecVars, storeVars, poolVars, callVars, sessionVars, nodeVars>>

\* Server.handleConnection: conn.Read returns an error, the goroutine returns and the
\* deferred conn.Close runs.  Nothing else is done for the connection.
SessionReadError(c) ==
    /\ sess[c].pc = "read"
    /\ c \in broken
    /\ sess' = [sess EXCEPT ![c] = [Waiting EXCEPT !.pc = "closed"]]
    /\ UNCHANGED <<pStorage, slaveConns, inbox, outbox, issued, hs, rStorage, rWrites,
                   commitLog, propLog, psyncTrace, fanVars>>
    /\ UNCHANGED <<engineVars, codecVars, storeVars, poolVars, callVars, sessionVars, nodeVars>>

\* ServeCommand, with the history of the stored SETs.
FanoutHandle(c) ==
    /\ ServeCommand(c)
    /\ ackLog' = IF Len(commitLog') > Len(commitLog)
                 THEN Append(ackLog, [pooled |-> slaveConns, acked |-> c \notin broken])
                 ELSE ackLog

\* GetSlaveConns, with the history of what it returned.
FanoutGetSlaveConns(c) ==
    /\ GetSlaveConns(c)
    /\ snapLog' = Append(snapLog, [wid |-> sess[c].wid, conns |-> slaveConns,
                                   closed |-> ClosedConns, failed |-> FailedSinks])
    /\ UNCHANGED ackLog

NextFanout ==
    \/ ClientWrite(FanoutClient)
    \/ \E c \in FanoutSinks : SinkWrite(c)
    \/ \E c \in Conns : ConnBreak(c)
    \/ \E c \in Conns : SessionRead(c)
    \/ \E c \in Conns : SessionReadError(c)
    \/ \E c \in Conns : FanoutHandle(c)
    \/ \E c \in Conns : PSyncAdd(c)
    \/ \E c \in Conns : PSyncSendFile(c)
    \/ \E c \in Conns : FanoutGetSlaveConns(c)
    \/ \E c \in Conns : SessionPropagate(c)

SpecFanout == InitFanout /\ [][NextFanout]_vars

----------------------------------------------------------------------------
(* Claims about the fan-out (SpecFanout).                                  *)

\* No goroutine is still at work on the stored SET number w.
FanoutOver(w) == \A c \in Conns : sess[c].wid # w

\* client.Propagate of the stored SET number w was called for the connection s.
Tried(w, s) == \E k \in 1..Len(fanLog) : fanLog[k].wid = w /\ fanLog[k].conn = s

\* C11: every SET stored on the primary is propagated to every connection that was
\* in the pool when it was stored: once the goroutine that stored it has moved on,
\* client.Propagate has been called for each of them.
C11_StoredWriteIsPropagated ==
    \A w \in 1..Len(ackLog) :
        FanoutOver(w) => \A s \in ackLog[w].pooled : Tried(w, s)

\* C12: a sink whose connection was closed, or to which a propagation write failed,
\* is no longer in the pool: no later GetSlaveConns returns it.
C12_FailedSinkLeavesPool ==
    \A k \in 1..Len(snapLog) :
        snapLog[k].conns \cap (snapLog[k].closed \cup snapLog[k].failed) = {}

\* C13: a propagation write that fails does not fail the client's SET.  Whenever the
\* fan-out of a stored SET has begun, its reply was written to the client before;
\* the store holds the value of the last stored SET; and once the fan-out is over,
\* client.Propagate has been called for every connection GetSlaveConns returned, and
\* has written the frame to each of them that has not failed itself.
C13_SinkFailureIsContained ==
    /\ \A k \in 1..Len(snapLog) :
          snapLog[k].wid # 0 =>
             /\ ackLog[snapLog[k].wid].acked
             /\ FanoutOver(snapLog[k].wid) =>
                   \A s \in snapLog[k].conns :
                      \E j \in 1..Len(fanLog) :
                         /\ fanLog[j].wid = snapLog[k].wid
                         /\ fanLog[j].conn = s
                         /\ s \notin broken => fanLog[j].ok
    /\ commitLog # <<>> =>
          /\ StorageHas(pStorage, KeyK)
          /\ pStorage[KeyK].Value = commitLog[Len(commitLog)].Value

\* C40: a SET that was stored and whose +OK could not be written to its client is
\* propagated all the same: once its goroutine has moved on and while the store holds
\* its value, the frame has been written to every connection that was in the pool
\* when it was stored and that has not failed.
C40_UnansweredSetIsPropagated ==
    \A w \in 1..Len(ackLog) :
        (/\ ~ackLog[w].acked
         /\ FanoutOver(w)
         /\ StorageHas(pStorage, KeyK)
         /\ pStorage[KeyK].Value = commitLog[w].Value) =>
            \A s \in ackLog[w].pooled \ broken :
                \E k \in 1..Len(fanLog) :
                    fanLog[k].wid = w /\ fanLog[k].conn = s /\ fanLog[k].ok

\* A fan-out is over in which the write to one sink failed and a later write to
\* another sink succeeded.
C13_Witness ==
    \E i, j \in 1..Len(fanLog) :
        /\ i < j
        /\ fanLog[i].wid = fanLog[j].wid
        /\ fanLog[i].wid # 0
        /\ ~fanLog[i].ok
        /\ fanLog[j].ok
        /\ FanoutOver(fanLog[i].wid)
        /\ ackLog[fanLog[i].wid].acked

----------------------------------------------------------------------------
(* A secondary (SpecSecondary): a `ReplicaServer` constructed with the     *)
(* address of a primary.  The primary is any peer: it answers each command *)
(* of the handshake with a reply of its choice and then streams frames of  *)
(* its choice.  Once Start accepts connections, one client talks to the    *)
(* secondary.  Every conn.Read returns all the bytes that wait.            *)

MaxStreamed == 2

\* The replies the primary chooses from during the handshake.
HandshakeReplies == { SimpleString(PING_REPLY), SimpleString(OK), Error(<<"ERR">>) }

\* The answer of a primary to PSYNC ? -1: the +FULLRESYNC line and the snapshot.
FullresyncReply ==
    SimpleString(FULLRESYNC \o <<" ">> \o ReplicationID \o <<" ", "0">>) \o getDBFile

PSyncAnswers == { FullresyncReply, Error(<<"ERR">>) }

FOO == <<"F", "O", "O">>

\* The frames the primary chooses from after its answer to PSYNC: a SET, a SET that
\* lacks its value, and a command no handler knows.
StreamFrames ==
    { BulkArray(<<SET, KeyK, ValA>>), BulkArray(<<SET, KeyK>>), BulkArray(<<FOO>>) }

\* What the client of the secondary chooses from.
SecondaryMessages ==
    { BulkArray(<<SET, KeyK, ValB>>), BulkArray(<<GET, KeyK>>),
      BulkArray(<<PSYNC, <<"?">>, <<"-", "1">> >>),
      SimpleString(FULLRESYNC \o <<" ", "a", " ", "0">>) }

InitSecondary ==
    /\ InitEngineIdle /\ InitCodecIdle /\ InitSessionIdle /\ InitReplIdle /\ InitStoreIdle
    /\ InitPoolIdle /\ InitCallIdle
    /\ replicaOf = "primary"
    /\ server = "ReplicaServer"
    /\ exited = FALSE
    /\ listening = FALSE
    /\ hsTrace = <<>>
    /\ streamed = <<>>
    /\ answers = <<>>

\* The primary answers the command the handshake waits on.
PrimaryReply(reply) ==
    /\ hs \in {"replconf_port", "replconf_capa", "psync"}
    /\ outbox[ReplicaConn] = <<>>
    /\ outbox' = [outbox EXCEPT ![ReplicaConn] = reply]
    /\ UNCHANGED <<pStorage, slaveConns, sess, inbox, issued, hs, rStorage, rWrites,
                   commitLog, propLog, psyncTrace, fanVars>>
    /\ UNCHANGED <<engineVars, codecVars, storeVars, poolVars, callVars, sessionVars, nodeVars>>

\* The primary writes on the connection after PSYNC was written to it: first its
\* answer to PSYNC, then frames.
PrimaryStream(message) ==
    /\ hs = "streaming"
    /\ Len(streamed) < MaxStreamed
    /\ message \in (IF streamed = <<>> THEN PSyncAnswers ELSE StreamFrames)
    /\ outbox' = [outbox EXCEPT ![ReplicaConn] = @ \o message]
    /\ streamed' = Append(streamed, message)
    /\ UNCHANGED <<pStorage, slaveConns, sess, inbox, issued, hs, rStorage, rWrites,
                   commitLog, propLog, psyncTrace, fanVars>>
    /\ UNCHANGED <<engineVars, codecVars, storeVars, poolVars, callVars, sessionVars>>
    /\ UNCHANGED <<replicaOf, server, exited, listening, hsTrace, answers>>

\* ReplicaServer.Start: setup has returned nil, the Accept loop begins.
StartAccept ==
    /\ hs = "streaming"
    /\ ~listening
    /\ listening' = TRUE
    /\ UNCHANGED <<replicaOf, server, exited, hsTrace, streamed, answers>>
    /\ UNCHANGED <<engineVars, codecVars, storeVars, poolVars, callVars, sessionVars, replVars>>

\* ReplicaServer.Start: setup has returned the error of the handshake, and so does
\* Start.
StartFails ==
    /\ hs = "failed"
    /\ ~exited
    /\ exited' = TRUE
    /\ UNCHANGED <<replicaOf, server, listening, hsTrace, streamed, answers>>
    /\ UNCHANGED <<engineVars, codecVars, storeVars, poolVars, callVars, sessionVars, replVars>>

\* A client of the secondary writes a message on its connection.
SecondaryClientSend(message) ==
    /\ listening
    /\ hs # "crashed"
    /\ ClientSend(message)

\* The two connections the secondary reads from: the one it dialled to the primary
\* (handleReplicationConnection) and the one of its client (handleConnection).
SecondarySides == {"primary", "client"}

\* One turn of the loop of handleReplicationConnection or of handleConnection, which
\* are the same but for their logging: conn.Read, Parse, and either the error is
\* logged and the loop continues or every command is handled, the connection that
\* was read being the connection to answer on.  A panic of a handler ends the
\* process.
SecondaryRead(side) ==
    /\ hs = "streaming"
    /\ side = "client" => (listening /\ open)
    /\ \E bytes \in {IF side = "primary" THEN outbox[ReplicaConn] ELSE wire} :
       /\ bytes # <<>>
       /\ \E n \in {Min(Len(bytes), BufferSize)} :
          /\ IF side = "primary"
             THEN /\ outbox' = [outbox EXCEPT ![ReplicaConn] = SubSeq(bytes, n + 1, Len(bytes))]
                  /\ UNCHANGED wire
             ELSE /\ wire' = SubSeq(bytes, n + 1, Len(bytes))
                  /\ UNCHANGED outbox
          /\ \E parsed \in {Parse(SubSeq(bytes, 1, n))} :
             IF parsed.err # "nil"
             THEN UNCHANGED <<rStorage, rWrites, inbox, executed, replies, answers, hs>>
             ELSE \E h \in {ReplicaHandleAll(parsed.Commands, 1, rStorage, now, <<>>)} :
                  \E sent \in {Concat(Concat(h.each))} :
                     /\ rStorage' = h.db
                     /\ hs' = IF h.panicked THEN "crashed" ELSE hs
                     /\ IF side = "primary"
                        THEN /\ rWrites' = rWrites \o sent
                             /\ inbox' = [inbox EXCEPT ![ReplicaConn] = @ \o sent]
                             /\ UNCHANGED <<executed, replies, answers>>
                        ELSE /\ executed' = executed \o SubSeq(parsed.Commands, 1, Len(h.each))
                             /\ replies' = replies \o sent
                             /\ answers' = answers \o h.each
                             /\ UNCHANGED <<rWrites, inbox>>
    /\ UNCHANGED <<stream, open, peerClosed, framed, wellFormed>>
    /\ UNCHANGED <<pStorage, slaveConns, sess, issued, commitLog, propLog, psyncTrace, fanVars>>
    /\ UNCHANGED <<engineVars, codecVars, storeVars, poolVars, callVars>>
    /\ UNCHANGED <<replicaOf, server, exited, listening, hsTrace, streamed>>

NextSecondary ==
    \/ handshakePing
    \/ handshakeReplConfPort
    \/ handshakeReplConfCapa
    \/ handshakePSync
    \/ \E reply \in HandshakeReplies : PrimaryReply(reply)
    \/ \E message \in PSyncAnswers \cup StreamFrames : PrimaryStream(message)
    \/ \E side \in SecondarySides : SecondaryRead(side)
    \/ StartAccept
    \/ StartFails
    \/ \E message \in SecondaryMessages : SecondaryClientSend(message)

SpecSecondary == InitSecondary /\ [][NextSecondary]_vars

----------------------------------------------------------------------------
(* Claims about the secondary (SpecSecondary).                             *)

\* C14: a secondary does not serve PSYNC: for a PSYNC of its client it writes no
\* +FULLRESYNC reply and no snapshot.
C14_SecondaryRefusesPSync ==
    \A i \in 1..Len(executed) :
        executed[i].Name = PSYNC =>
            \A j \in 1..Len(answers[i]) :
                /\ ~IsPrefix(<<"+">> \o FULLRESYNC, answers[i][j])
                /\ answers[i][j] # getDBFile

\* The commands of the handshake and the replies it expects, in order.
HandshakeCommands ==
    << <<PING>>, <<REPLCONF, LISTENING_PORT, ReplicaPort>>, <<REPLCONF, CAPA, PSYNC2>>,
       <<PSYNC, <<"?">>, <<"-", "1">> >> >>
HandshakeExpected == <<PING_REPLY, OK, OK>>

\* The bytes of the commands the handshake has written.
RECURSIVE SentBytes(_)
SentBytes(trace) ==
    IF trace = <<>> THEN <<>>
    ELSE (IF Head(trace).op = "send" THEN Head(trace).bytes ELSE <<>>) \o SentBytes(Tail(trace))

\* C16: the handshake writes PING, REPLCONF listening-port <port>, REPLCONF capa
\* psync2 and PSYNC ? -1, in this order and nothing else, and writes each command
\* after the first only when the reply it read to the command before was the
\* expected simple string: +PONG, +OK, +OK.
C16_HandshakeInOrder ==
    /\ Len(hsTrace) <= 2 * Len(HandshakeCommands) - 1
    /\ \A i \in 1..Len(hsTrace) :
          IF i % 2 = 1
          THEN /\ hsTrace[i] = Sent(HandshakeCommands[(i + 1) \div 2])
               /\ i > 1 => hsTrace[i - 1].bytes = SimpleString(HandshakeExpected[(i - 1) \div 2])
          ELSE hsTrace[i].op = "recv"
    /\ inbox[ReplicaConn] = SentBytes(hsTrace) \o rWrites

\* The handshake has written its four commands.
C16_Witness ==
    /\ hs = "streaming"
    /\ Len(hsTrace) = 2 * Len(HandshakeCommands) - 1
    /\ inbox[ReplicaConn] = Concat([k \in 1..Len(HandshakeCommands) |-> BulkArray(HandshakeCommands[k])])

\* C17: a failed step of the handshake is fatal: the secondary does not accept
\* client connections when a reply of the handshake was not the expected one, nor
\* when the answer to PSYNC is not +FULLRESYNC <id> <offset> and the snapshot.
C17_HandshakeFailureIsFatal ==
    /\ hs = "failed" => ~listening
    /\ (streamed # <<>> /\ streamed[1] # FullresyncReply) => ~listening

\* The frames of StreamFrames that the handler answers with an error.
ErrorFrames == { BulkArray(<<SET, KeyK>>), BulkArray(<<FOO>>) }

\* C18: the commands of the primary that are usage errors or unknown are dropped in
\* silence: as long as the primary has sent no other frame after its answer to
\* PSYNC, the secondary has written nothing back to it.
C18_ErrorFramesAreDiscarded ==
    (\A i \in 2..Len(streamed) : streamed[i] \in ErrorFrames) => rWrites = <<>>

\* C19: every command of a client other than PSYNC is answered with exactly one
\* message, and the bytes written on the connection are these answers in the order
\* of the commands.
C19_EveryCommandAnsweredOnce ==
    /\ Len(answers) = Len(executed)
    /\ \A i \in 1..Len(executed) : executed[i].Name # PSYNC => Len(answers[i]) = 1
    /\ replies = Concat(Concat(answers))

----------------------------------------------------------------------------
(* Startup (SpecMain): main reads the configuration, constructs a server   *)
(* and calls its Start.  A MasterServer accepts connections at once; one   *)
(* client then talks to it as in SpecSession.  A ReplicaServer runs setup  *)
(* first.                                                                  *)

\* getInitSpecsFromArgs: --replicaof is absent, or names a primary.
InitMain ==
    /\ InitEngineIdle /\ InitCodecIdle /\ InitSessionIdle /\ InitReplIdle /\ InitStoreIdle
    /\ InitPoolIdle /\ InitCallIdle
    /\ replicaOf \in {"nil", "primary"}
    /\ server = "none"
    /\ exited = FALSE
    /\ listening = FALSE
    /\ hsTrace = <<>>
    /\ streamed = <<>>
    /\ answers = <<>>

\* main: the server it constructs.
main ==
    /\ server = "none"
    /\ server' = IF replicaOf # "nil" THEN "MasterServer" ELSE "ReplicaServer"
    /\ UNCHANGED <<replicaOf, exited, listening, hsTrace, streamed, answers>>
    /\ UNCHANGED <<engineVars, codecVars, storeVars, poolVars, callVars, sessionVars, replVars>>

\* MasterServer.Start: the Accept loop.
MasterStart ==
    /\ server = "MasterServer"
    /\ ~listening
    /\ listening' = TRUE
    /\ UNCHANGED <<replicaOf, server, exited, hsTrace, streamed, answers>>
    /\ UNCHANGED <<engineVars, codecVars, storeVars, poolVars, callVars, sessionVars, replVars>>

\* ReplicaServer.Start: setup finds no ReplicaOf and returns an error, Start returns
\* it and main exits.
SetupFails ==
    /\ server = "ReplicaServer"
    /\ replicaOf = "nil"
    /\ ~exited
    /\ exited' = TRUE
    /\ UNCHANGED <<replicaOf, server, listening, hsTrace, streamed, answers>>
    /\ UNCHANGED <<engineVars, codecVars, storeVars, poolVars, callVars, sessionVars, replVars>>

\* The session of a client that the MasterServer has accepted.
MasterSession ==
    /\ server = "MasterServer"
    /\ listening
    /\ NextSession

NextMain ==
    \/ main
    \/ MasterStart
    \/ SetupFails
    \/ MasterSession

SpecMain == InitMain /\ [][NextMain]_vars

\* C15: the role follows the configuration: without --replicaof the process is a
\* primary that serves clients, with --replicaof it is a secondary, the server that
\* dials the primary and runs the handshake.
C15_RoleFollowsReplicaOf ==
    /\ server # "none" => (server = "ReplicaServer" <=> replicaOf # "nil")
    /\ replicaOf = "nil" => ~exited

----------------------------------------------------------------------------
(* The store under concurrent calls (SpecStore): two goroutines call Get,  *)
(* Set and Del of one DefaultStorage on one key.  Load, Store and Delete   *)
(* of the sync.Map are atomic; a call is as many steps as it makes of      *)
(* them.                                                                   *)

MaxStoreOps == 2

InitStore ==
    /\ InitEngineIdle /\ InitCodecIdle /\ InitSessionIdle /\ InitReplIdle /\ InitNodeIdle
    /\ InitStoreIdle /\ InitPoolIdle /\ InitCallIdle

\* A finished call: what was called, with which value, and what it returned.
Call(op, value, ok, got) == [op |-> op, value |-> value, ok |-> ok, got |-> got]

\* Get: one Load.
StoreGet(p) ==
    /\ spc[p] = "idle"
    /\ Len(hist[p]) < MaxStoreOps
    /\ hist' = [hist EXCEPT ![p] =
                   Append(@, IF StorageHas(storage, KeyK)
                             THEN Call("get", <<>>, TRUE, storage[KeyK].Value)
                             ELSE Call("get", <<>>, FALSE, <<>>))]
    /\ UNCHANGED <<storage, spc>>
    /\ UNCHANGED <<now, writes, cmd, fresh, lastWrite, preKeys, before, fetched, laterWrites>>
    /\ UNCHANGED <<codecVars, sessionVars, replVars, nodeVars, poolVars, callVars>>

\* Set: one Store.
StoreSet(p, value) ==
    /\ spc[p] = "idle"
    /\ Len(hist[p]) < MaxStoreOps
    /\ storage' = StorageSet(storage, KeyK, KVRecord(value))
    /\ hist' = [hist EXCEPT ![p] = Append(@, Call("set", value, TRUE, <<>>))]
    /\ UNCHANGED spc
    /\ UNCHANGED <<now, writes, cmd, fresh, lastWrite, preKeys, before, fetched, laterWrites>>
    /\ UNCHANGED <<codecVars, sessionVars, replVars, nodeVars, poolVars, callVars>>

\* Del, first step: the Load.  Without a record Del returns its error.
StoreDelLoad(p) ==
    /\ spc[p] = "idle"
    /\ Len(hist[p]) < MaxStoreOps
    /\ IF StorageHas(storage, KeyK)
       THEN /\ spc' = [spc EXCEPT ![p] = "loaded"]
            /\ UNCHANGED hist
       ELSE /\ hist' = [hist EXCEPT ![p] = Append(@, Call("del", <<>>, FALSE, <<>>))]
            /\ UNCHANGED spc
    /\ UNCHANGED storage
    /\ UNCHANGED <<now, writes, cmd, fresh, lastWrite, preKeys, before, fetched, laterWrites>>
    /\ UNCHANGED <<codecVars, sessionVars, replVars, nodeVars, poolVars, callVars>>

\* Del, second step: the Delete, and Del returns nil.
StoreDelDelete(p) ==
    /\ spc[p] = "loaded"
    /\ storage' = [x \in (DOMAIN storage) \ {KeyK} |-> storage[x]]
    /\ spc' = [spc EXCEPT ![p] = "idle"]
    /\ hist' = [hist EXCEPT ![p] = Append(@, Call("del", <<>>, TRUE, <<>>))]
    /\ UNCHANGED <<now, writes, cmd, fresh, lastWrite, preKeys, before, fetched, laterWrites>>
    /\ UNCHANGED <<codecVars, sessionVars, replVars, nodeVars, poolVars, callVars>>

NextStore ==
    \/ \E p \in Callers : StoreGet(p)
    \/ \E p \in Callers, value \in {ValA, ValB} : StoreSet(p, value)
    \/ \E p \in Callers : StoreDelLoad(p)
    \/ \E p \in Callers : StoreDelDelete(p)

SpecStore == InitStore /\ [][NextStore]_vars

\* The call, run alone on the store db: what it returns and the store it leaves.
Alone(call, db) ==
    IF call.op = "get"
    THEN [call |-> IF StorageHas(db, KeyK) THEN Call("get", <<>>, TRUE, db[KeyK].Value)
                   ELSE Call("get", <<>>, FALSE, <<>>),
          db |-> db]
    ELSE IF call.op = "set"
    THEN [call |-> call, db |-> StorageSet(db, KeyK, KVRecord(call.value))]
    ELSE [call |-> Call("del", <<>>, StorageDel(db, KeyK).ok, <<>>),
          db |-> StorageDel(db, KeyK).db]

\* Some order of the calls h1 and h2, each list in its own order, run one call after
\* the other from the store db, returns what the calls returned and leaves the store
\* final.
RECURSIVE Serial(_, _, _, _)
Serial(h1, h2, db, final) ==
    IF h1 = <<>> /\ h2 = <<>> THEN db = final
    ELSE \/ /\ h1 # <<>>
            /\ Alone(Head(h1), db).call = Head(h1)
            /\ Serial(Tail(h1), h2, Alone(Head(h1), db).db, final)
         \/ /\ h2 # <<>>
            /\ Alone(Head(h2), db).call = Head(h2)
            /\ Serial(h1, Tail(h2), Alone(Head(h2), db).db, final)

\* C20: the calls of the store on one key are atomic: whenever no call is under
\* way, what the calls returned and the record the store holds are those of the
\* calls run one after the other in some order.
C20_StoreCallsAreSerial ==
    (\A p \in Callers : spc[p] = "idle") => Serial(hist["p1"], hist["p2"], NewStorage, storage)

----------------------------------------------------------------------------
(* The pool of replica connections under concurrent sessions (SpecPool).   *)
(* DefaultConnectionPool.conns is a plain map and the pool holds no lock:  *)
(* handlePSync calls Add from the goroutine of the attaching connection    *)
(* while the goroutine of any other connection calls GetSlaveConns, and    *)
(* so GetAll, for its fan-out.  An access to the map takes time: it begins *)
(* and it ends.  A write that overlaps another access is a data race; the  *)
(* runtime may detect it and end the process ("concurrent map iteration    *)
(* and map write", "concurrent map writes"), or the access completes.      *)

MaxSnapshots == 2

InitPool ==
    /\ InitEngineIdle /\ InitCodecIdle /\ InitSessionIdle /\ InitReplIdle /\ InitNodeIdle
    /\ InitStoreIdle /\ InitPoolIdle /\ InitCallIdle

\* The goroutines other than c that are inside the map in one of the given ways.
Inside(c, ways) == { d \in Conns \ {c} : ppc[d] \in ways }

\* The access of c begins and conflicts with the accesses of the goroutines in others.
Enter(c, way, others) ==
    /\ ppc' = [ppc EXCEPT ![c] = way]
    /\ unsafe' = [d \in Conns |-> IF d = c THEN others # {}
                                  ELSE IF d \in others THEN TRUE ELSE unsafe[d]]
    /\ raced' = (raced \/ others # {})

\* Add, h.conns[connID] = conn begins: a map write.
AddBegin(c) ==
    /\ ~thrown
    /\ ppc[c] = "idle"
    /\ Enter(c, "adding", Inside(c, {"adding", "ranging"}))
    /\ UNCHANGED <<slaveConns, thrown, snaps>>
    /\ UNCHANGED <<pStorage, sess, inbox, outbox, issued, hs, rStorage, rWrites,
                   commitLog, propLog, psyncTrace, fanVars>>
    /\ UNCHANGED <<engineVars, codecVars, sessionVars, nodeVars, storeVars, callVars>>

\* The map write ends: the connection is a member, or the runtime caught the race.
AddEnd(c) ==
    /\ ~thrown
    /\ ppc[c] = "adding"
    /\ \/ /\ slaveConns' = slaveConns \cup {c}
          /\ ppc' = [ppc EXCEPT ![c] = "idle"]
          /\ unsafe' = [unsafe EXCEPT ![c] = FALSE]
          /\ UNCHANGED thrown
       \/ /\ unsafe[c]
          /\ thrown' = TRUE
          /\ UNCHANGED <<slaveConns, ppc, unsafe>>
    /\ UNCHANGED <<raced, snaps>>
    /\ UNCHANGED <<pStorage, sess, inbox, outbox, issued, hs, rStorage, rWrites,
                   commitLog, propLog, psyncTrace, fanVars>>
    /\ UNCHANGED <<engineVars, codecVars, sessionVars, nodeVars, storeVars, callVars>>

\* GetAll, the range over h.conns begins: a map iteration.
GetAllBegin(c) ==
    /\ ~thrown
    /\ ppc[c] = "idle"
    /\ Len(snaps) < MaxSnapshots
    /\ Enter(c, "ranging", Inside(c, {"adding"}))
    /\ snaps' = Append(snaps, [by |-> c, lo |-> slaveConns, hi |-> slaveConns,
                               conns |-> {}, done |-> FALSE])
    /\ UNCHANGED <<slaveConns, thrown>>
    /\ UNCHANGED <<pStorage, sess, inbox, outbox, issued, hs, rStorage, rWrites,
                   commitLog, propLog, psyncTrace, fanVars>>
    /\ UNCHANGED <<engineVars, codecVars, sessionVars, nodeVars, storeVars, callVars>>

\* The range ends.  Undisturbed it returns the members; raced by a write it returns
\* the members with or without the connections that were being added, or the runtime
\* caught the race.
GetAllEnd(c) ==
    /\ ~thrown
    /\ ppc[c] = "ranging"
    /\ \E i \in 1..Len(snaps) :
          /\ snaps[i].by = c /\ ~snaps[i].done
          /\ \/ \E seen \in SUBSET (slaveConns \cup Inside(c, {"adding"})) :
                   /\ snaps[i].lo \subseteq seen
                   /\ ~unsafe[c] => seen = slaveConns
                   /\ snaps' = [snaps EXCEPT ![i] =
                                   [by |-> c, lo |-> snaps[i].lo,
                                    hi |-> slaveConns \cup Inside(c, {"adding"}),
                                    conns |-> seen, done |-> TRUE]]
                   /\ ppc' = [ppc EXCEPT ![c] = "idle"]
                   /\ unsafe' = [unsafe EXCEPT ![c] = FALSE]
                   /\ UNCHANGED thrown
             \/ /\ unsafe[c]
                /\ thrown' = TRUE
                /\ UNCHANGED <<ppc, unsafe, snaps>>
    /\ UNCHANGED <<slaveConns, raced>>
    /\ UNCHANGED <<pStorage, sess, inbox, outbox, issued, hs, rStorage, rWrites,
                   commitLog, propLog, psyncTrace, fanVars>>
    /\ UNCHANGED <<engineVars, codecVars, sessionVars, nodeVars, storeVars, callVars>>

NextPool ==
    \/ \E c \in Conns : AddBegin(c)
    \/ \E c \in Conns : AddEnd(c)
    \/ \E c \in Conns : GetAllBegin(c)
    \/ \E c \in Conns : GetAllEnd(c)

SpecPool == InitPool /\ [][NextPool]_vars

\* C21: the registry is safe for concurrent readers and writers: an attach (Add) and a
\* snapshot (GetAll) of two sessions never access the membership map at the same time,
\* the process is never ended over such an access, and every snapshot equals the
\* membership before or after the attaches that ran beside it.
C21_RegistryAccessIsSynchronized ==
    /\ \A c \in Conns, d \in Conns : ~(ppc[c] = "adding" /\ ppc[d] = "ranging")
    /\ ~thrown
    /\ \A i \in 1..Len(snaps) :
          snaps[i].done => (snaps[i].conns = snaps[i].lo \/ snaps[i].conns = snaps[i].hi)

----------------------------------------------------------------------------
(* The command handlers on every shape of command (SpecHandler).  One node *)
(* is a primary or a secondary by its configuration.  Each command of a    *)
(* connection is handled whole by the handler of `Server` (INFO, REPLCONF, *)
(* PSYNC and the pool of replica connections) on its store, and beside it  *)
(* the same command is handled by the later handler (REPLCONF, PSYNC, DEL) *)
(* on a store of its own, so that both are held to the same claims.        *)

ROLE == <<"r", "o", "l", "e">>
MASTER == <<"m", "a", "s", "t", "e", "r">>
SLAVE == <<"s", "l", "a", "v", "e">>
MASTER_REPL_OFFSET == <<"m", "a", "s", "t", "e", "r", "_", "r", "e", "p", "l", "_", "o", "f", "f", "s", "e", "t">>
MASTER_REPLID == <<"m", "a", "s", "t", "e", "r", "_", "r", "e", "p", "l", "i", "d">>
REPLICATION == <<"r", "e", "p", "l", "i", "c", "a", "t", "i", "o", "n">>

\* Config.IsSlave: ReplicaOf is set.
IsSlave == replicaOf # "nil"

\* infoReplication: the params map.
InfoParams ==
    IF IsSlave THEN (ROLE :> SLAVE)
    ELSE (ROLE :> MASTER) @@ (MASTER_REPL_OFFSET :> <<"0">>) @@ (MASTER_REPLID :> ReplicationID)

\* The orders in which a range over the params map may visit its keys.
InfoOrders ==
    { o \in [1..Cardinality(DOMAIN InfoParams) -> DOMAIN InfoParams] :
        \A i, j \in DOMAIN o : i # j => o[i] # o[j] }

\* infoReplication, the range visiting the keys in the given order.
infoReplication(order) ==
    <<"#", "R", "e", "p", "l", "i", "c", "a", "t", "i", "o", "n">>
        \o Concat([i \in 1..Len(order) |-> CRLF \o order[i] \o <<":">> \o InfoParams[order[i]]])

executeInfo(command, db, order) ==
    IF Len(command.Args) > 1
    THEN Exec(Error(<<"INFO command too many arguments">>), TRUE, db)
    ELSE IF Len(command.Args) = 1 /\ ToLower(command.Args[1]) # REPLICATION
    THEN Exec(Error(<<"INFO command only supports 'replication' argument">>), TRUE, db)
    ELSE Exec(BulkString(infoReplication(order)), FALSE, db)

\* executePSync by the role: a secondary answers +OK.
executePSyncByRole(command, db) ==
    LET e == executePSync(command, db) IN
    IF e.CommandError \/ ~IsSlave THEN e ELSE Exec(SimpleString(OK), FALSE, db)

\* What a handler leaves: the messages written on the connection, the store, the pool.
Handled(written, db, pool) == [writes |-> written, db |-> db, pool |-> pool]

\* handlePSync on connection conn: the reply, then Add and the database file.
handlePSync(command, db, pool, conn) ==
    LET e == executePSyncByRole(command, db) IN
    IF e.CommandError THEN Handled(<<e.msg>>, db, pool)
    ELSE Handled(<<e.msg, getDBFile>>, db, pool \cup {conn})

\* handleSet of `Server`: the reply is sent on a primary only.
handleSetByRole(command, db, t, pool) ==
    LET e == executeSet(command, db, t) IN
    Handled(IF IsSlave THEN <<>> ELSE <<e.msg>>, e.db, pool)

\* Handle of `Server`, whole, for a command of connection conn.
HandleByRole(command, db, t, pool, conn, order) ==
    IF command.Name = PSYNC THEN handlePSync(command, db, pool, conn)
    ELSE IF command.Name = SET THEN handleSetByRole(command, db, t, pool)
    ELSE IF command.Name = INFO
    THEN Handled(<<executeInfo(command, db, order).msg>>, db, pool)
    ELSE LET e == ServerHandle(command, db, t) IN Handled(<<e.msg>>, e.db, pool)

HandlerCommands ==
    { NewCommand(SET, <<KeyK, ValA>>), NewCommand(SET, <<KeyK, ValB, PX, <<"1">> >>),
      NewCommand(SET, <<KeyK>>), NewCommand(SET, <<>>),
      NewCommand(SET, <<KeyK, ValB, <<"e", "x">>, <<"1">> >>),
      NewCommand(SET, <<KeyK, ValB, <<"P", "x">> >>),
      NewCommand(GET, <<KeyK>>), NewCommand(GET, <<>>), NewCommand(GET, <<KeyK, KeyJ>>),
      NewCommand(PING, <<>>), NewCommand(PING, <<ValA>>),
      NewCommand(PSYNC, << <<"?">>, <<"-", "1">> >>), NewCommand(PSYNC, <<>>),
      NewCommand(PSYNC, << <<"?">> >>), NewCommand(PSYNC, << <<"?">>, <<"-", "1">>, ValA >>),
      NewCommand(PSYNC, << <<"?">>, <<"0">> >>),
      NewCommand(PSYNC, << ReplicationID, <<"-", "1">> >>),
      NewCommand(REPLCONF, <<LISTENING_PORT, ReplicaPort>>),
      NewCommand(REPLCONF, <<ToUpper(LISTENING_PORT), ValA>>),
      NewCommand(REPLCONF, <<CAPA, PSYNC2>>),
      NewCommand(REPLCONF, <<ToUpper(CAPA), ToUpper(PSYNC2)>>),
      NewCommand(REPLCONF, <<CAPA, <<"e", "o", "f">> >>),
      NewCommand(REPLCONF, <<PSYNC2, CAPA>>),
      NewCommand(REPLCONF, <<ReplicaPort, LISTENING_PORT>>),
      NewCommand(REPLCONF, <<>>), NewCommand(REPLCONF, <<CAPA>>),
      NewCommand(REPLCONF, <<LISTENING_PORT>>),
      NewCommand(REPLCONF, <<CAPA, PSYNC2, ValA>>),
      NewCommand(INFO, <<>>), NewCommand(INFO, <<REPLICATION>>),
      NewCommand(INFO, <<ToUpper(REPLICATION)>>), NewCommand(INFO, <<ValA>>),
      NewCommand(INFO, <<REPLICATION, REPLICATION>>) }

InitHandler ==
    /\ InitEngineIdle /\ InitCodecIdle /\ InitSessionIdle /\ InitReplIdle /\ InitStoreIdle
    /\ InitPoolIdle /\ InitCallIdle
    /\ replicaOf \in {"nil", "primary"}
    /\ server = "none"
    /\ exited = FALSE
    /\ listening = FALSE
    /\ hsTrace = <<>>
    /\ streamed = <<>>
    /\ answers = <<>>

\* Connection conn sends command: Handle of `Server` serves it, and so does the later
\* handler on its own store.
HandlerCommand(conn, command) ==
    \E order \in InfoOrders :
    \E h \in {HandleByRole(command, storage, now, slaveConns, conn, order)} :
    \E later \in {ReplicaHandle(command, rStorage, now)} :
        /\ storage' = h.db
        /\ slaveConns' = h.pool
        /\ writes' = h.writes
        /\ cmd' = command
        /\ rStorage' = later.db
        /\ laterWrites' = later.writes
        /\ UNCHANGED <<now, fresh, lastWrite, preKeys, before, fetched>>
        /\ UNCHANGED <<pStorage, sess, inbox, outbox, issued, hs, rWrites,
                       commitLog, propLog, psyncTrace, fanVars>>
        /\ UNCHANGED <<codecVars, sessionVars, nodeVars, storeVars, poolVars, callVars>>

NextHandler == \E conn \in Conns, command \in HandlerCommands : HandlerCommand(conn, command)

SpecHandler == InitHandler /\ [][NextHandler]_vars

\* The command has a wrong argument count or an unsupported option: a SET with fewer
\* than 2 arguments, with a third argument that is not PX, or with PX and no duration,
\* a GET with a number of arguments other than 1.
ShapeRejected(command) ==
    \/ /\ command.Name = SET
       /\ \/ Len(command.Args) < 2
          \/ Len(command.Args) > 2 /\ ToLower(command.Args[3]) # PX
          \/ Len(command.Args) = 3 /\ ToLower(command.Args[3]) = PX
    \/ command.Name = GET /\ Len(command.Args) # 1

OneError(written) == Len(written) = 1 /\ IsError(written[1])

\* C23: argument shapes are validated before any side effect: a step that handles a
\* SET with fewer than 2 arguments, a SET whose third argument is not PX, a SET with PX
\* and no duration, or a GET with a number of arguments other than 1 leaves the store
\* and the replica registry exactly as they were, and the command is answered with one
\* error reply wherever the handler answers its SETs.
C23_ShapeErrorsChangeNothing ==
    [][ShapeRejected(cmd') =>
            /\ storage' = storage
            /\ slaveConns' = slaveConns
            /\ rStorage' = rStorage
            /\ OneError(laterWrites')
            /\ (~IsSlave \/ cmd'.Name = GET) => OneError(writes')]_vars

C23_Witness ==
    /\ cmd = NewCommand(SET, <<KeyK, ValB, <<"e", "x">>, <<"1">> >>)
    /\ writes = <<Error(<<"Unsupported expiration format, only PX is supported">>)>>
    /\ laterWrites = writes
    /\ storage = (KeyK :> KVRecord(ValA))
    /\ rStorage = storage
    /\ slaveConns = {ReplicaConn}

\* C25: PING with zero arguments is answered +PONG and PING with any other number of
\* arguments is answered with an error reply, by either handler.
C25_PingTakesNoArgument ==
    cmd.Name = PING =>
        IF Len(cmd.Args) = 0
        THEN writes = <<SimpleString(PING_REPLY)>> /\ laterWrites = <<SimpleString(PING_REPLY)>>
        ELSE OneError(writes) /\ OneError(laterWrites)

\* A PSYNC whose arguments are not exactly `?` and `-1`.
PSyncRejected(command) ==
    /\ command.Name = PSYNC
    /\ \/ Len(command.Args) # 2
       \/ command.Args[1] # <<"?">>
       \/ command.Args[2] # <<"-", "1">>

\* C26: a step that handles a PSYNC with an argument count other than 2, or with
\* arguments other than exactly `?` and `-1`, writes a single error reply and nothing
\* else (no snapshot bulk), by either handler, and leaves the replica registry as it
\* was: the connection is not attached.
C26_BadPSyncIsRefused ==
    [][PSyncRejected(cmd') =>
            /\ OneError(writes')
            /\ OneError(laterWrites')
            /\ slaveConns' = slaveConns]_vars

C26_Witness ==
    /\ cmd = NewCommand(PSYNC, << <<"?">>, <<"0">> >>)
    /\ writes = <<Error(<<"PSYNC command only supports '?' and '-1' arguments">>)>>
    /\ laterWrites = writes
    /\ slaveConns = {ReplicaConn}
    /\ ~IsSlave

\* C27: INFO with no argument, or with the argument `replication` in any letter
\* case, returns one bulk string: #Replication and then, on a primary, the lines
\* master_replid, role:master and master_repl_offset:0 in that order (the order the
\* tests match byte for byte), on a secondary the line role:slave; every invocation
\* returns the same bytes.
C27_InfoIsStable ==
    (/\ cmd.Name = INFO
     /\ Len(cmd.Args) <= 1
     /\ Len(cmd.Args) = 1 => ToLower(cmd.Args[1]) = REPLICATION) =>
        writes = <<BulkString(infoReplication(
                      IF IsSlave THEN <<ROLE>>
                      ELSE <<MASTER_REPLID, ROLE, MASTER_REPL_OFFSET>>))>>

----------------------------------------------------------------------------
(* Snapshots on the stream (SpecSnapshot): a writer puts command frames    *)
(* (BulkArray) and snapshot payloads (FileContent, as handlePSync sends    *)
(* the database file) on one stream in any order, and the reader parses    *)
(* the whole stream.                                                       *)

MaxBlobs == 2

SnapshotElements == { <<SET, KeyK, ValA>>, <<PING>> }

\* The payloads: the database file, and bytes that look like framing.
SnapshotPayloads == { DBContent, <<CR, LF>>, <<"*", "1", CR, LF, "$", "+">>, <<>> }

InitSnapshot ==
    /\ InitEngineIdle /\ InitCodecIdle /\ InitSessionIdle /\ InitReplIdle /\ InitNodeIdle
    /\ InitStoreIdle /\ InitPoolIdle /\ InitCallIdle

\* The writer appends a command frame (elements is not empty) or else the payload as
\* a snapshot, and the reader parses what the stream holds.
WriteAndParse(elements, payload) ==
    /\ IF elements # <<>>
       THEN /\ Len(frames) < MaxFrames
            /\ frames' = Append(frames, elements)
            /\ buf' = buf \o BulkArray(elements)
            /\ UNCHANGED blobs
       ELSE /\ Len(blobs) < MaxBlobs
            /\ blobs' = Append(blobs, [after |-> Len(frames), payload |-> payload])
            /\ buf' = buf \o FileContent(payload)
            /\ UNCHANGED frames
    /\ result' = Parse(buf')
    /\ UNCHANGED <<engineVars, sessionVars, replVars, nodeVars, storeVars, poolVars, callVars>>

NextSnapshot ==
    \E elements \in SnapshotElements \cup {<<>>}, payload \in SnapshotPayloads :
        WriteAndParse(elements, payload)

SpecSnapshot == InitSnapshot /\ [][NextSnapshot]_vars

\* The payload Parse surfaces: that of the first snapshot that is not empty.
RECURSIVE FirstPayload(_)
FirstPayload(written) ==
    IF written = <<>> THEN <<>>
    ELSE IF Head(written).payload # <<>> THEN Head(written).payload
    ELSE FirstPayload(Tail(written))

\* C28: a $<len> CRLF prefix at the outermost level is decoded as a blob of exactly
\* len bytes with no CRLF after it, whatever the bytes are: the stream parses without
\* error, the blob is the surfaced snapshot and never a command, and the bytes after
\* the payload are parsed as the next outermost frame, so that the commands decoded
\* are exactly the command frames written, in their order.
C28_SnapshotIsOpaque ==
    /\ result.err = "nil"
    /\ result.RDBDump = FirstPayload(blobs)
    /\ Len(result.Commands) = Len(frames)
    /\ \A i \in 1..Len(frames) :
          result.Commands[i] = NewCommand(frames[i][1], Tail(frames[i]))

C28_Witness ==
    /\ Len(blobs) = 1
    /\ blobs[1] = [after |-> 0, payload |-> <<"*", "1", CR, LF, "$", "+">>]
    /\ frames = << <<SET, KeyK, ValA>> >>
    /\ result.RDBDump = <<"*", "1", CR, LF, "$", "+">>
    /\ result.Commands = <<NewCommand(SET, <<KeyK, ValA>>)>>

\* The two forms of REPLCONF: `listening-port` with a second argument, which stands
\* for the port and is not inspected, and `capa psync2`; letter case does not count.
ReplConfAccepted(command) ==
    /\ Len(command.Args) = 2
    /\ \/ ToLower(command.Args[1]) = LISTENING_PORT
       \/ ToLower(command.Args[1]) = CAPA /\ ToLower(command.Args[2]) = PSYNC2

\* C30: a step that handles REPLCONF answers +OK when the command has exactly 2
\* arguments of the form `listening-port <port>` or `capa psync2`, the tokens compared
\* without regard to letter case, and answers one error reply for every other pair of
\* arguments and every other argument count, by either handler; in no case does it
\* change a store or the registry.
C30_ReplConfForms ==
    [][cmd'.Name = REPLCONF =>
            /\ IF ReplConfAccepted(cmd')
               THEN writes' = <<SimpleString(OK)>> /\ laterWrites' = <<SimpleString(OK)>>
               ELSE OneError(writes') /\ OneError(laterWrites')
            /\ storage' = storage
            /\ rStorage' = rStorage
            /\ slaveConns' = slaveConns]_vars

C30_Witness ==
    /\ cmd = NewCommand(REPLCONF, <<ToUpper(CAPA), ToUpper(PSYNC2)>>)
    /\ writes = <<SimpleString(OK)>>
    /\ laterWrites = <<SimpleString(OK)>>
    /\ StorageHas(storage, KeyK)
    /\ StorageHas(rStorage, KeyK)
    /\ slaveConns = {ReplicaConn}

----------------------------------------------------------------------------
(* Dispatch (SpecDispatch): one node runs one of the three servers, each   *)
(* with its own handler: MasterServer (PING, SET, GET, DEL), `Server`      *)
(* (ECHO, INFO, REPLCONF, PSYNC and the pool of replica connections) and   *)
(* ReplicaServer (DEL, REPLCONF, PSYNC, FULLRESYNC).  Handle is called     *)
(* with a command and a connection, which may be the nil net.Conn or a     *)
(* net.Conn whose RemoteAddr().String() is empty; a panic ends the         *)
(* process.                                                                *)

Servers == {"MasterServer", "Server", "ReplicaServer"}

NilConn == "nil"
AnonConn == "anon"
DispatchConns == {"c1", AnonConn, NilConn}

\* DefaultConnectionPool.getConnID: the remote address, "" for the nil connection.
getConnID(conn) == IF conn = NilConn \/ conn = AnonConn THEN "" ELSE conn

\* DefaultConnectionPool.Add: an error when the connection has no ID.
Add(pool, conn) ==
    IF getConnID(conn) = "" THEN [ok |-> FALSE, pool |-> pool]
    ELSE [ok |-> TRUE, pool |-> pool \cup {conn}]

\* What a call of Handle leaves: the messages it gave to sendMsg, the store, the pool,
\* HandleResult.CommandError and the error it returns.
Returned(written, db, pool, commandError, err) ==
    [writes |-> written, db |-> db, pool |-> pool, CommandError |-> commandError,
     err |-> err, panicked |-> FALSE]

Panicked(db, pool) ==
    [writes |-> <<>>, db |-> db, pool |-> pool, CommandError |-> FALSE, err |-> FALSE,
     panicked |-> TRUE]

\* handlePSync of `Server`, whole: the reply, getDBFile, Add and, unless Add refused
\* the connection, the database file.
handlePSyncAttach(command, db, pool, conn) ==
    LET e == executePSyncByRole(command, db)
        added == Add(pool, conn)
    IN  IF e.CommandError THEN Returned(<<e.msg>>, db, pool, TRUE, FALSE)
        ELSE IF ~added.ok THEN Returned(<<e.msg>>, db, pool, FALSE, TRUE)
        ELSE Returned(<<e.msg, getDBFile>>, db, added.pool, FALSE, FALSE)

\* The result of handleFullresync when it does not panic: strconv.Atoi of Args[1]
\* fails, and both HandleResult.CommandError and the error are set, or it does not.
fullresyncFails(command) == ~Atoi(command.Args[2]).ok

\* Handle of the server's handler for a command of connection conn: the results it may
\* have (INFO ranges over a map, in any order).
Dispatch(which, command, db, t, pool, conn) ==
    IF which = "MasterServer"
    THEN { Returned(h.writes, h.db, pool, h.CommandError, FALSE) : h \in {Handle(command, db, t)} }
    ELSE IF which = "Server"
    THEN IF command.Name = PSYNC THEN {handlePSyncAttach(command, db, pool, conn)}
         ELSE IF command.Name = INFO
         THEN { Returned(<<e.msg>>, e.db, pool, e.CommandError, FALSE) :
                    e \in { executeInfo(command, db, order) : order \in InfoOrders } }
         ELSE { Returned(IF command.Name = SET /\ IsSlave THEN <<>> ELSE <<e.msg>>,
                         e.db, pool, e.CommandError, FALSE) :
                    e \in {ServerHandle(command, db, t)} }
    ELSE { IF h.panicked THEN Panicked(db, pool)
           ELSE IF command.Name = FULLRESYNC
           THEN Returned(h.writes, h.db, pool, fullresyncFails(command), fullresyncFails(command))
           ELSE Returned(h.writes, h.db, pool, IsError(h.writes[1]), FALSE) :
               h \in {ReplicaHandle(command, db, t)} }

\* sendMsg calls conn.Write: on the nil net.Conn the first message panics.
sendMsg(h, pool, conn) ==
    IF conn = NilConn /\ h.writes # <<>> THEN Panicked(h.db, pool) ELSE h

FooCommand == NewCommand(<<"f", "o", "o">>, <<ValA>>)

\* Names no handler knows (the parser has put them in upper case), and commands that
\* fill the store and the pool.
UnknownCommands ==
    { FooCommand, NewCommand(<<"F", "O", "O">>, <<>>), NewCommand(<<"G", "e", "t", "x">>, <<KeyK>>),
      NewCommand(<<>>, <<>>) }

\* What readResponse makes of the lines +FULLRESYNC, +FULLRESYNC <id>,
\* +FULLRESYNC <id> 0, +FULLRESYNC <id> x and +FULLRESYNC <id> 0 1.
FullresyncCommands ==
    { NewCommand(FULLRESYNC, <<>>), NewCommand(FULLRESYNC, <<ReplicationID>>),
      NewCommand(FULLRESYNC, <<ReplicationID, <<"0">> >>),
      NewCommand(FULLRESYNC, <<ReplicationID, <<"x">> >>),
      NewCommand(FULLRESYNC, <<ReplicationID, <<"0">>, <<"1">> >>) }

DispatchCommands ==
    UnknownCommands \cup FullresyncCommands
        \cup { NewCommand(SET, <<KeyK, ValA>>), NewCommand(SET, <<KeyJ, ValB>>),
               NewCommand(GET, <<KeyK>>), NewCommand(PING, <<>>),
               NewCommand(PSYNC, << <<"?">>, <<"-", "1">> >>),
               NewCommand(PSYNC, << <<"?">> >>) }

InitDispatch ==
    /\ InitEngineIdle /\ InitCodecIdle /\ InitSessionIdle /\ InitReplIdle /\ InitStoreIdle
    /\ InitPoolIdle /\ InitCallIdle
    /\ replicaOf \in {"nil", "primary"}
    /\ server \in Servers
    /\ exited = FALSE
    /\ listening = FALSE
    /\ hsTrace = <<>>
    /\ streamed = <<>>
    /\ answers = <<>>

\* A session of the node calls Handle with command and conn.
DispatchCommand(conn, command) ==
    /\ ~aborted
    /\ \E called \in Dispatch(server, command, storage, now, slaveConns, conn) :
       \E h \in {sendMsg(called, slaveConns, conn)} :
          /\ storage' = h.db
          /\ slaveConns' = h.pool
          /\ writes' = h.writes
          /\ cmd' = command
          /\ outcome' = [conn |-> conn, CommandError |-> h.CommandError, err |-> h.err]
          /\ aborted' = h.panicked
    /\ UNCHANGED <<now, fresh, lastWrite, preKeys, before, fetched, laterWrites>>
    /\ UNCHANGED <<pStorage, sess, inbox, outbox, issued, hs, rStorage, rWrites,
                   commitLog, propLog, psyncTrace, fanVars>>
    /\ UNCHANGED <<codecVars, sessionVars, nodeVars, storeVars, poolVars>>

NextDispatch ==
    \E conn \in DispatchConns, command \in DispatchCommands : DispatchCommand(conn, command)

SpecDispatch == InitDispatch /\ [][NextDispatch]_vars

----------------------------------------------------------------------------
(* Claims about the dispatch (SpecDispatch).                               *)

\* The names some handler of the repository serves.
SupportedNames == {PING, ECHO, SET, GET, DEL, INFO, REPLCONF, PSYNC, FULLRESYNC}

\* C31: a step that handles, for a client on its connection, a command whose name no
\* handler serves writes exactly -ERR Unknown command: <NAME> CRLF, <NAME> being the
\* name in upper case, and leaves the store and the replica registry as they were,
\* whichever server runs.
C31_UnknownCommandIsNamed ==
    [][(cmd'.Name \notin SupportedNames /\ outcome'.conn # NilConn) =>
            /\ writes' = <<Error(<<"Unknown command: ">> \o cmd'.Name)>>
            /\ outcome'.CommandError
            /\ ~aborted'
            /\ storage' = storage
            /\ slaveConns' = slaveConns]_vars

C31_Witness ==
    /\ cmd = FooCommand
    /\ cmd.Name = <<"F", "O", "O">>
    /\ writes = <<Error(<<"Unknown command: ", "F", "O", "O">>)>>
    /\ outcome.conn = "c1"
    /\ server = "MasterServer"
    /\ StorageHas(storage, KeyK)

\* C35: a FULLRESYNC command, as the parser makes it of a +FULLRESYNC line, is a no-op
\* whatever its argument list: the step that handles it leaves the store and the replica
\* registry as they were, writes nothing on the connection, and Handle returns (with a
\* result or an error) without a panic.
C35_FullresyncIsANoOp ==
    [][(cmd'.Name = FULLRESYNC /\ outcome'.conn # NilConn) =>
            /\ storage' = storage
            /\ slaveConns' = slaveConns
            /\ writes' = <<>>
            /\ ~aborted']_vars

\* C36: when a primary handles PSYNC ? -1 on a connection whose endpoint cannot be
\* determined, so that the pool refuses to add it, the failure is reported as a command
\* error (HandleResult.CommandError is set), the +FULLRESYNC reply written before is
\* what the connection has received, and the replica registry is as it was.
C36_RefusedAttachIsACommandError ==
    [][(/\ cmd' = NewCommand(PSYNC, << <<"?">>, <<"-", "1">> >>)
        /\ server = "Server" /\ ~IsSlave
        /\ getConnID(outcome'.conn) = "") =>
            /\ ~aborted'
            /\ outcome'.CommandError
            /\ writes' = <<SimpleString(FULLRESYNC \o <<" ">> \o ReplicationID \o <<" ", "0">>)>>
            /\ slaveConns' = slaveConns]_vars

----------------------------------------------------------------------------
(* One client connection of MasterServer whose reads carry any bytes and   *)
(* whose writes may fail (SpecLossy): handleConnection with the errors of  *)
(* Parse, the panics of the decoder and the errors of conn.Write.          *)

LossyFrames == { BulkArray(<<SET, KeyK, ValA>>), BulkArray(<<GET, KeyK>>) }

\* Frames with a bad length: a non-numeric and a negative array count, a non-numeric
\* and a negative bulk length.
BadLengthFrames ==
    { <<"*", "x">> \o CRLF,
      <<"*", "-", "1">> \o CRLF,
      <<"*", "1">> \o CRLF \o <<"$", "x">> \o CRLF,
      <<"*", "1">> \o CRLF \o <<"$", "-", "1">> \o CRLF }

\* The head of a frame whose elements have not arrived.
IncompleteFrame == <<"*", "2">> \o CRLF

LossyMessages == LossyFrames \cup BadLengthFrames \cup {IncompleteFrame}

\* handleConnection's loop over result.Commands when conn.Write fails from the
\* failFrom-th command on: Handle has run the command before sendMsg returns the
\* error, and the loop continues with the next command.  each[i] is what reached the
\* connection for the i-th command.
RECURSIVE HandleEach(_, _, _, _, _, _)
HandleEach(commands, i, db, t, failFrom, each) ==
    IF i > Len(commands) THEN [db |-> db, each |-> each]
    ELSE LET h == Handle(commands[i], db, t) IN
         HandleEach(commands, i + 1, h.db, t, failFrom,
                    Append(each, IF i >= failFrom THEN <<>> ELSE h.writes))

InitLossy ==
    /\ InitEngineIdle /\ InitCodecIdle /\ InitSessionIdle /\ InitReplIdle /\ InitNodeIdle
    /\ InitStoreIdle /\ InitPoolIdle /\ InitCallIdle

\* One turn of the loop: conn.Read returns the first n bytes and Parse decodes them.
\* make() with a negative size panics and nothing recovers: the process ends.  Another
\* error of Parse is logged and the loop continues.  Otherwise every command is
\* handled, whether or not the write of an earlier reply failed.
LossyRead(n) ==
    /\ open
    /\ ~aborted
    /\ "c1" \notin broken
    /\ n \in 1..Min(Len(wire), BufferSize)
    /\ wire' = SubSeq(wire, n + 1, Len(wire))
    /\ buf' = SubSeq(wire, 1, n)
    /\ \E parsed \in {Parse(SubSeq(wire, 1, n))} :
          /\ result' = parsed
          /\ framed' = (framed \/ parsed.err = "startbyte")
          /\ aborted' = (parsed.err = "panic")
          /\ IF parsed.err # "nil"
             THEN UNCHANGED <<storage, executed, replies, answers, broken>>
             ELSE \E failFrom \in 1..(Len(parsed.Commands) + 1) :
                  \E h \in {HandleEach(parsed.Commands, 1, storage, now, failFrom, <<>>)} :
                      /\ storage' = h.db
                      /\ executed' = executed \o parsed.Commands
                      /\ answers' = answers \o h.each
                      /\ replies' = replies \o Concat(Concat(h.each))
                      /\ broken' = IF failFrom <= Len(parsed.Commands)
                                   THEN broken \cup {"c1"} ELSE broken
    /\ UNCHANGED <<stream, open, peerClosed, wellFormed, frames, blobs, outcome>>
    /\ UNCHANGED <<now, writes, cmd, fresh, lastWrite, preKeys, before, fetched, laterWrites>>
    /\ UNCHANGED <<pStorage, slaveConns, sess, inbox, outbox, issued, hs, rStorage, rWrites,
                   commitLog, propLog, psyncTrace, snapLog, ackLog, fanLog>>
    /\ UNCHANGED <<replicaOf, server, exited, listening, hsTrace, streamed>>
    /\ UNCHANGED <<storeVars, poolVars>>

\* conn.Read returns io.EOF.
LossyReadEOF ==
    /\ ~aborted
    /\ "c1" \notin broken
    /\ ServerReadEOF

\* conn.Read returns an error on the failed connection: handleConnection returns and
\* the deferred Close runs.
LossyReadError ==
    /\ open
    /\ ~aborted
    /\ "c1" \in broken
    /\ open' = FALSE
    /\ UNCHANGED <<wire, stream, executed, replies, peerClosed, framed, wellFormed>>
    /\ UNCHANGED <<engineVars, codecVars, storeVars, poolVars, callVars, replVars, nodeVars>>

NextLossy ==
    \/ \E message \in LossyMessages : ClientSend(message)
    \/ ClientClose
    \/ \E n \in 1..Len(wire) : LossyRead(n)
    \/ LossyReadEOF
    \/ LossyReadError

SpecLossy == InitLossy /\ [][NextLossy]_vars

\* C33: when the bytes of one read hold complete command frames followed by an
\* incomplete or a malformed frame, the complete frames are executed in their order
\* and their responses are written in that order.
C33_DecodedFramesAreExecuted ==
    [][(/\ Len(wire') < Len(wire)
        /\ result'.Commands # <<>>
        /\ result'.err \in {"EOF", "protocol", "length"}) =>
            /\ executed' = executed \o result'.Commands
            /\ "c1" \notin broken' =>
                   replies' = replies \o HandleAll(result'.Commands, 1, storage, now, <<>>).sent]_vars

\* C34: a read that holds a frame with a non-numeric or a negative array count or
\* bulk length makes the decoder return an error value, leaves the store as it was,
\* ends that connection and leaves the process running.
C34_BadLengthEndsTheConnectionOnly ==
    [][(Len(wire') < Len(wire) /\ result'.err \in {"length", "panic"}) =>
            /\ result'.err = "length"
            /\ storage' = storage
            /\ ~aborted'
            /\ ~open']_vars

\* C37: a command whose reply could not be written is the last command executed on
\* its connection, and what it stored stays stored.
C37_NoCommandAfterAFailedReply ==
    \A i \in 1..Len(answers) :
        answers[i] = <<>> =>
            /\ i = Len(answers)
            /\ executed[i].Name = SET => StorageHas(storage, executed[i].Args[1])

----------------------------------------------------------------------------
(* A client and a sink of the primary `Server` (SpecSink): c1 sends SETs, *)
(* one of them without its value; c2 sends PSYNC ? -1 and, once it is in   *)
(* the pool, a PING or a GET.  No connection fails.                        *)

SinkClient == "c1"
SinkConn == "c2"
SinkSessions == {SinkClient, SinkConn}

\* What the client sends: a SET and a SET that lacks its value.
SinkClientElements == { <<SET, KeyK, ValA>>, <<SET, KeyK>> }

InitSink ==
    /\ InitEngineIdle /\ InitCodecIdle /\ InitSessionIdle /\ InitReplIdle /\ InitNodeIdle
    /\ InitStoreIdle /\ InitPoolIdle /\ InitCallIdle

\* The peer of connection c writes the command of these elements.
PeerWrite(c, elements) ==
    /\ issued[c] < MaxClientCmds
    /\ issued' = [issued EXCEPT ![c] = @ + 1]
    /\ inbox' = [inbox EXCEPT ![c] = @ \o BulkArray(elements)]
    /\ UNCHANGED <<pStorage, slaveConns, sess, outbox, hs, rStorage, rWrites, commitLog,
                   propLog, psyncTrace>>
    /\ UNCHANGED fanVars
    /\ UNCHANGED <<engineVars, codecVars, storeVars, poolVars, callVars, sessionVars, nodeVars>>

\* What the sink sends after its PSYNC.
SinkElements == { <<PING>>, <<GET, KeyK>> }

\* The sink writes a command after its PSYNC has been served: handleConnection is back
\* at conn.Read on the connection it has added to the pool.
SinkCommand(elements) ==
    /\ SinkConn \in slaveConns
    /\ sess[SinkConn].pc = "read"
    /\ PeerWrite(SinkConn, elements)

NextSink ==
    \/ \E elements \in SinkClientElements : PeerWrite(SinkClient, elements)
    \/ SinkWrite(SinkConn)
    \/ \E elements \in SinkElements : SinkCommand(elements)
    \/ \E c \in SinkSessions : SessionRead(c)
    \/ \E c \in SinkSessions : SessionHandle(c)
    \/ \E c \in SinkSessions : PSyncAdd(c)
    \/ \E c \in SinkSessions : PSyncSendFile(c)
    \/ \E c \in SinkSessions : SessionGetSlaveConns(c)
    \/ \E c \in SinkSessions : SessionPropagate(c)

SpecSink == InitSink /\ [][NextSink]_vars

\* C32: a frame is written to a replica's connection only for a SET that was stored:
\* a SET answered with -ERR is not propagated.
C32_RejectedSetIsNotPropagated ==
    \A k \in 1..Len(fanLog) : fanLog[k].ok => fanLog[k].wid # 0

\* C38: once PSYNC has been served on a connection (the connection is in the pool
\* and the snapshot has been written), the only bytes the primary writes on it are
\* the frames of a fan-out: a command received on it later is not answered on it.
C38_SinkIsWriteOnly ==
    [][\A c \in SinkSessions :
          (c \in slaveConns /\ sess[c].pc # "psync_file" /\ outbox'[c] # outbox[c]) =>
              \E d \in SinkSessions :
                  /\ sess[d].pc = "propagate"
                  /\ Head(sess[d].conns) = c
                  /\ outbox'[c] = outbox[c] \o PropagateSet(Head(sess[d].todo))]_vars

====
